---- MODULE Spec2Model ----
(***************************************************************************)
(* Model of the helpers class of the ownCloud JavaScript client           *)
(* (src/unnamed/part_000, lines 1-546): the WebDAV multi-status decoder    *)
(* (_extractPath, _parseFileInfo, _parseBody), the OCS status normaliser   *)
(* (_checkOCSstatus, _checkOCSstatusCode) and the response callback of     *)
(* _makeOCSrequest.                                                        *)
(*                                                                         *)
(* JavaScript values are held as records tagged by "kind", so that values  *)
(* of different JavaScript types can be compared:                          *)
(*   [kind |-> "undefined"], [kind |-> "null"], [kind |-> "NaN"],          *)
(*   [kind |-> "string", val |-> s], [kind |-> "number", val |-> n], ...      *)
(* An exception leaving a function is the outcome                          *)
(*   [kind |-> "throw", err |-> name].                                     *)
(*                                                                         *)
(* A URL path is held as the list of its '/'-separated pieces, which is    *)
(* what String.prototype.split('/') returns for it: '/a//b/' is            *)
(* <<"", "a", "", "b", "">>.  The empty pieces are the ones split          *)
(* produces for leading, trailing and doubled slashes.                     *)
(***************************************************************************)
EXTENDS Integers, Sequences, FiniteSets, Bags, TLC

VARIABLES
  instance,        \* this.instance
  _webdavUrl,      \* this._webdavUrl
  _davPath,        \* this._davPath
  _authHeader,     \* this._authHeader
  _versionNumber,  \* this._versionNumber
  _currentUser,    \* this._currentUser
  call,            \* the helper call under way: its name and arguments
  ret,             \* what the call returned or threw, NoRet until it has run
  requests         \* the bag of the network requests in flight

vars ==
  <<instance, _webdavUrl, _davPath, _authHeader, _versionNumber, _currentUser,
    call, ret, requests>>
session ==
  <<instance, _webdavUrl, _davPath, _authHeader, _versionNumber, _currentUser>>

(***************************************************************************)
(* Bounds of the model.                                                    *)
(***************************************************************************)
\* the longest href, in '/'-separated pieces
MaxPieces == 4
\* the largest leftTrimComponents
MaxTrim == 2

(***************************************************************************)
(* JavaScript values.                                                      *)
(***************************************************************************)
Undefined == [kind |-> "undefined"]
Null == [kind |-> "null"]
NaN == [kind |-> "NaN"]
Str(s) == [kind |-> "string", val |-> s]
Num(n) == [kind |-> "number", val |-> n]
Throw(e) == [kind |-> "throw", err |-> e]

\* constructor (): the four session fields it sets start as null, the two
\* URLs that setInstance derives are not set, and nothing has been requested
Constructed ==
  /\ instance = Null
  /\ _webdavUrl = Undefined
  /\ _davPath = Undefined
  /\ _authHeader = Null
  /\ _versionNumber = Null
  /\ _currentUser = Null
  /\ requests = EmptyBag

NoCall == [op |-> "none"]
NoRet == [kind |-> "none"]

(***************************************************************************)
(* Path Resolver: _extractPath (lines 447-470).                            *)
(***************************************************************************)
\* The slash-free pieces hrefs are built from.  "remote%2Ephp" spells
\* 'remote.php' with an escaped dot, "b%20c" holds an escaped space and
\* "%zz" is not a percent escape at all.
Pieces == {"", "remote.php", "remote%2Ephp", "webdav", "dav", "a", "b%20c", "%zz"}

\* decodeURIComponent on a piece: replaces each %XX escape by the character
\* it encodes and throws URIError when a '%' does not start an escape
\* (ECMA-262 Decode).
decodeURIComponent(s) ==
  CASE s = "remote%2Ephp" -> Str("remote.php")
    [] s = "b%20c" -> Str("b c")
    [] s = "%zz" -> Throw("URIError")
    [] OTHER -> Str(s)

\* pathSections[i] fed to decodeURIComponent, i a JavaScript (0-based) index:
\* an index outside the array reads undefined, which decodeURIComponent
\* converts to the string 'undefined'.
decodeSection(pathSections, i) ==
  IF 0 <= i /\ i < Len(pathSections)
    THEN decodeURIComponent(pathSections[i + 1])
    ELSE Str("undefined")

\* path.split('/').filter(section => section !== '')   (lines 448-451)
filterSections(path) == SelectSeq(path, LAMBDA section : section # "")

\* pathSections.findIndex(section => decodeURIComponent(section) === 'remote.php')
\* (line 453), searching from index i: the index found, -1, or the URIError
\* of the first section that does not decode.
RECURSIVE findIndex(_, _)
findIndex(pathSections, i) ==
  IF i >= Len(pathSections) THEN Num(-1)
  ELSE LET d == decodeSection(pathSections, i) IN
       IF d.kind = "throw" THEN d
       ELSE IF d.val = "remote.php" THEN Num(i)
       ELSE findIndex(pathSections, i + 1)

\* the while loop of lines 465-468
RECURSIVE buildSubPath(_, _, _)
buildSubPath(pathSections, i, subPath) ==
  IF i < Len(pathSections)
    THEN LET d == decodeSection(pathSections, i) IN
         IF d.kind = "throw" THEN d
         ELSE buildSubPath(pathSections, i + 1, subPath \o "/" \o d.val)
    ELSE Str(subPath)

\* the first index of the sub-path (line 464), as a plausible slip would
\* compute it
subPathStartOffByOne(remoteIndex, leftTrimComponents) ==
  remoteIndex + leftTrimComponents + 1

\* let i = remoteIndex + leftTrimComponents + 2   (line 464)
subPathStart(remoteIndex, leftTrimComponents) ==
  remoteIndex + leftTrimComponents + 2

\* ['webdav', 'dav'].indexOf(section) !== -1   (line 457)
isDavSegment(section) == section \in {"webdav", "dav"}

_extractPath(path, leftTrimComponents) ==
  LET pathSections == filterSections(path)
      remoteIndex == findIndex(pathSections, 0)
  IN IF remoteIndex.kind = "throw" THEN remoteIndex
     ELSE IF remoteIndex.val = -1 THEN Null
     ELSE LET next == decodeSection(pathSections, remoteIndex.val + 1) IN
          IF next.kind = "throw" THEN next
          ELSE IF ~isDavSegment(next.val) THEN Null
          ELSE buildSubPath(pathSections,
                            subPathStart(remoteIndex.val, leftTrimComponents), "")

\* every href of at most MaxPieces pieces
Hrefs == UNION {[1..n -> Pieces] : n \in 1..MaxPieces}
\* leftTrimComponents: the counts callers pass, and a negative one
Trims == -1..MaxTrim

\* the calls of _extractPath the model makes
ExtractPathCalls ==
  {[op |-> "_extractPath", path |-> path, leftTrimComponents |-> t] :
     path \in Hrefs, t \in Trims}

InitPath ==
  /\ Constructed
  /\ call \in ExtractPathCalls
  /\ ret = NoRet

ExtractPath ==
  /\ call.op = "_extractPath"
  /\ ret = NoRet
  /\ ret' = _extractPath(call.path, call.leftTrimComponents)
  /\ UNCHANGED <<call, session, requests>>

NextPath == ExtractPath
SpecPath == InitPath /\ [][NextPath]_vars

(***************************************************************************)
(* Claims about the Path Resolver, checked under SpecPath.                 *)
(***************************************************************************)
\* the call of _extractPath has run
ExtractPathDone == call.op = "_extractPath" /\ ret # NoRet

\* the segments of an href: its non-empty pieces, in order
RECURSIVE Segments(_)
Segments(path) ==
  IF path = <<>> THEN <<>>
  ELSE IF Head(path) = "" THEN Segments(Tail(path))
  ELSE <<Head(path)>> \o Segments(Tail(path))

\* segment s percent-decodes to the string t
DecodesTo(s, t) == decodeURIComponent(s) = Str(t)

\* the positions (from 1) of the segments that decode to 'remote.php'
RemotePositions(segs) == {k \in 1..Len(segs) : DecodesTo(segs[k], "remote.php")}

\* the position of the first such segment
FirstRemote(segs) ==
  CHOOSE k \in RemotePositions(segs) : \A j \in RemotePositions(segs) : k <= j

\* the segment right after the first 'remote.php' decodes to 'webdav' or 'dav'
FollowedByDav(segs) ==
  /\ FirstRemote(segs) < Len(segs)
  /\ \/ DecodesTo(segs[FirstRemote(segs) + 1], "webdav")
     \/ DecodesTo(segs[FirstRemote(segs) + 1], "dav")

\* C3: for every href with no segment that percent-decodes to 'remote.php',
\* _extractPath returns null, whatever leftTrimComponents is.
C3_NoRemoteIsNotFound ==
  (ExtractPathDone /\ RemotePositions(Segments(call.path)) = {}) => ret = Null

\* C4: for every href with a 'remote.php' segment, _extractPath returns null
\* when the segment right after it does not decode to 'webdav' or 'dav'
\* (also when there is no such segment), and returns a path when it does.
C4_DavSegmentDecides ==
  (ExtractPathDone /\ RemotePositions(Segments(call.path)) # {}) =>
     IF FollowedByDav(Segments(call.path))
       THEN ret.kind = "string"
       ELSE ret = Null

\* every piece of an href percent-decodes
AllPiecesDecode(path) ==
  \A k \in 1..Len(path) : decodeURIComponent(path[k]).kind = "string"

\* What holds of _extractPath: the statements of C3 and C4 for the hrefs whose
\* pieces all percent-decode.
NotFoundDecidedWhenPiecesDecode ==
  (ExtractPathDone /\ AllPiecesDecode(call.path))
    => (C3_NoRemoteIsNotFound /\ C4_DavSegmentDecides)

\* '/' + decoded(segment) over a list of segments, joined from the right
RECURSIVE JoinDecoded(_)
JoinDecoded(segs) ==
  IF segs = <<>> THEN ""
  ELSE "/" \o decodeURIComponent(Head(segs)).val \o JoinDecoded(Tail(segs))

\* the segments at JavaScript index >= (remote.php index) + trim + 2
SegmentsFromOffset(segs, trim) ==
  SubSeq(segs, FirstRemote(segs) + trim + 2, Len(segs))

\* C5: for every href _extractPath resolves and every leftTrimComponents >= 0,
\* the path returned is the concatenation of '/' + decoded(segment) over the
\* non-empty segments at index >= (remote.php index) + leftTrimComponents + 2,
\* in order; it is the empty string when no segment is left there.  Only the
\* non-empty pieces count, so leading, trailing and doubled slashes do not
\* change the result.
C5_SubPathIsDecodedJoin ==
  (ExtractPathDone /\ ret.kind = "string" /\ call.leftTrimComponents >= 0) =>
     ret.val = JoinDecoded(SegmentsFromOffset(Segments(call.path),
                                              call.leftTrimComponents))

\* C5 witness: 'remote.php/webdav/a/b%20c' with trim 0 resolved to '/a/b c'
C5_Witness ==
  /\ ExtractPathDone
  /\ call.path = <<"remote.php", "webdav", "a", "b%20c">>
  /\ call.leftTrimComponents = 0
  /\ ret = Str("/a/b c")

\* C5, the edge case: nothing is left after the offset and the path is ''
C5_EmptyPathReached ==
  /\ ExtractPathDone
  /\ call.path = <<"", "remote.php", "dav", "a">>
  /\ call.leftTrimComponents = 1
  /\ ret = Str("")

(***************************************************************************)
(* File-Info Decoder and Batch Decoder: _parseFileInfo (lines 476-499)     *)
(* and _parseBody (lines 432-445).                                         *)
(*                                                                         *)
(* A multi-status entry is [href |-> path, propStat |-> <<block, ...>>],   *)
(* a block is [status |-> string, properties |-> map], and a property map  *)
(* is a function from property names to values.  The value of              *)
(* '{DAV:}resourcetype' is the text of the element (a string) when it has  *)
(* no child element, and the array of its child nodes otherwise; a node is *)
(* [namespaceURI |-> string, nodeName |-> list], its name held as the list *)
(* of its ':'-separated pieces, the way split(':') returns it.             *)
(***************************************************************************)
\* the longest propStat list of an entry
MaxPropStat == 2
\* the longest multi-status response, in entries
MaxResponses == 3

Array(items) == [kind |-> "array", items |-> items]
Node(ns, name) == [namespaceURI |-> ns, nodeName |-> name]

\* JavaScript truthiness, for the values the model holds
Truthy(v) ==
  CASE v.kind \in {"undefined", "null", "NaN"} -> FALSE
    [] v.kind = "string" -> v.val # ""
    [] v.kind = "text" -> v.chars # <<>>
    [] v.kind = "number" -> v.val # 0
    [] OTHER -> TRUE

\* obj[key] on a property map: undefined for a key it does not hold
Get(obj, key) == IF key \in DOMAIN obj THEN obj[key] ELSE Undefined

StatusOK == "HTTP/1.1 200 OK"
ResourceTypeKey == "{DAV:}resourcetype"

\* new FileInfo(name, type, props)   (line 498)
FileInfo(name, fileType, props) ==
  [kind |-> "FileInfo", name |-> name, type |-> fileType, props |-> props]

\* the test of line 493 on resType[0] with the namespace left unchecked
isCollectionAnyNamespace(xmlvalue) ==
  /\ Len(xmlvalue.nodeName) >= 2
  /\ xmlvalue.nodeName[2] = "collection"

\* xmlvalue.namespaceURI === 'DAV:' &&
\*   xmlvalue.nodeName.split(':')[1] === 'collection'   (line 493)
isCollection(xmlvalue) ==
  /\ xmlvalue.namespaceURI = "DAV:"
  /\ Len(xmlvalue.nodeName) >= 2
  /\ xmlvalue.nodeName[2] = "collection"

\* lines 489-496: the file type read from props['{DAV:}resourcetype'], or the
\* TypeError of reading a field of resType[0] when that is undefined
fileTypeOf(props) ==
  LET resType == Get(props, ResourceTypeKey) IN
  IF ~Truthy(resType) THEN Str("file")
  ELSE IF resType.kind = "string" THEN Str("file")
  ELSE IF resType.items = <<>> THEN Throw("TypeError")
  ELSE IF isCollection(resType.items[1]) THEN Str("dir")
  ELSE Str("file")

\* the status test of line 484 comparing against the status of any block
firstBlockFailedAnyBlock(propStat) ==
  \/ Len(propStat) = 0
  \/ \A k \in 1..Len(propStat) : propStat[k].status # StatusOK

\* response.propStat.length === 0 ||
\*   response.propStat[0].status !== 'HTTP/1.1 200 OK'   (line 484)
firstBlockFailed(propStat) ==
  \/ Len(propStat) = 0
  \/ propStat[1].status # StatusOK

\* _parseFileInfo resolving the href without its leftTrimComponents
_parseFileInfoUntrimmed(response, leftTrimComponents) ==
  LET path == _extractPath(response.href, 0) IN
  IF path.kind = "throw" THEN path
  ELSE IF path = Null THEN Null
  ELSE IF firstBlockFailed(response.propStat) THEN Null
  ELSE LET props == response.propStat[1].properties
           fileType == fileTypeOf(props)
       IN IF fileType.kind = "throw" THEN fileType
          ELSE FileInfo(path.val, fileType.val, props)

_parseFileInfo(response, leftTrimComponents) ==
  LET path == _extractPath(response.href, leftTrimComponents) IN
  IF path.kind = "throw" THEN path
  ELSE IF path = Null THEN Null
  ELSE IF firstBlockFailed(response.propStat) THEN Null
  ELSE LET props == response.propStat[1].properties
           fileType == fileTypeOf(props)
       IN IF fileType.kind = "throw" THEN fileType
          ELSE FileInfo(path.val, fileType.val, props)

\* fileInfos.push(fileInfo)   (line 441)
push(fileInfos, fileInfo) == Append(fileInfos, fileInfo)

\* the for loop of lines 438-443, from index i (0-based) with fileInfos so far
RECURSIVE parseBodyLoop(_, _, _, _)
parseBodyLoop(responses, leftTrimComponents, i, fileInfos) ==
  IF i < Len(responses)
    THEN LET fileInfo == _parseFileInfo(responses[i + 1], leftTrimComponents) IN
         IF fileInfo.kind = "throw" THEN fileInfo
         ELSE IF fileInfo # Null
           THEN parseBodyLoop(responses, leftTrimComponents, i + 1,
                              push(fileInfos, fileInfo))
           ELSE parseBodyLoop(responses, leftTrimComponents, i + 1, fileInfos)
    ELSE Array(fileInfos)

\* responses is an Array(<<entry, ...>>) or a single entry
_parseBody(responses, leftTrimComponents) ==
  LET list == IF responses.kind = "array" THEN responses.items
              ELSE <<responses.entry>>
  IN parseBodyLoop(list, leftTrimComponents, 0, <<>>)

(***************************************************************************)
(* The entries the decoders are called with.                               *)
(***************************************************************************)
Collection == Node("DAV:", <<"d", "collection">>)
\* the values '{DAV:}resourcetype' takes: no text and no child (''), no
\* child node at all ([]), and lists of child nodes
ResourceTypes ==
  { Str(""),
    Array(<<>>),
    Array(<<Collection>>),
    Array(<<Node("DAV:", <<"collection">>)>>),
    Array(<<Node("DAV:", <<"d", "principal">>)>>),
    Array(<<Node("http://owncloud.org/ns", <<"oc", "collection">>)>>),
    Array(<<Node("DAV:", <<"d", "principal">>), Collection>>) }

ETag == "{DAV:}getetag" :> Str("3986cd55")
\* the property maps of a block: with a resource type, without one, and the
\* quota properties a server reports as not found
PropertyMaps ==
  {(ResourceTypeKey :> rt) @@ ETag : rt \in ResourceTypes}
    \cup {ETag, "{DAV:}quota-used-bytes" :> Str("")}

Statuses == {StatusOK, "HTTP/1.1 404 Not Found"}
Blocks == [status : Statuses, properties : PropertyMaps]
PropStats == UNION {[1..n -> Blocks] : n \in 0..MaxPropStat}

HrefSubdir == <<"", "remote.php", "webdav", "docs", "subdir", "">>
HrefFile == <<"", "remote.php", "dav", "files", "a", "b%20c">>
HrefForeign == <<"", "index.php", "apps", "a">>
HrefBadEscape == <<"", "remote.php", "webdav", "%zz">>
EntryHrefs ==
  {HrefSubdir, HrefFile, <<"", "remote.php", "webdav", "">>, HrefForeign,
   HrefBadEscape}

Entries == [href : EntryHrefs, propStat : PropStats]
EntryTrims == 0..MaxTrim

Block(status, rt) == [status |-> status, properties |-> (ResourceTypeKey :> rt) @@ ETag]
\* the entries multi-status responses are built from: a folder, a file, an
\* entry whose properties were not found, an entry outside remote.php, an
\* entry with a childless resource type array, an entry with a bad escape
BatchEntries ==
  { [href |-> HrefSubdir, propStat |-> <<Block(StatusOK, Array(<<Collection>>))>>],
    [href |-> HrefFile, propStat |-> <<Block(StatusOK, Str(""))>>],
    [href |-> HrefSubdir, propStat |-> <<Block("HTTP/1.1 404 Not Found", Str(""))>>],
    [href |-> HrefForeign, propStat |-> <<Block(StatusOK, Str(""))>>],
    [href |-> HrefFile, propStat |-> <<Block(StatusOK, Array(<<>>))>>],
    [href |-> HrefBadEscape, propStat |-> <<Block(StatusOK, Str(""))>>] }

\* a response body: an array of entries, or one entry that is not in an array
Responses ==
  {Array(items) : items \in UNION {[1..n -> BatchEntries] : n \in 0..MaxResponses}}
    \cup {[kind |-> "entry", entry |-> e] : e \in BatchEntries}

ParseFileInfoCalls ==
  {[op |-> "_parseFileInfo", response |-> e, leftTrimComponents |-> t] :
     e \in Entries, t \in EntryTrims}

ParseBodyCalls ==
  {[op |-> "_parseBody", responses |-> r, leftTrimComponents |-> t] :
     r \in Responses, t \in EntryTrims}

InitDecode ==
  /\ Constructed
  /\ call \in ParseFileInfoCalls \cup ParseBodyCalls
  /\ ret = NoRet

ParseFileInfo ==
  /\ call.op = "_parseFileInfo"
  /\ ret = NoRet
  /\ ret' = _parseFileInfo(call.response, call.leftTrimComponents)
  /\ UNCHANGED <<call, session, requests>>

ParseBody ==
  /\ call.op = "_parseBody"
  /\ ret = NoRet
  /\ ret' = _parseBody(call.responses, call.leftTrimComponents)
  /\ UNCHANGED <<call, session, requests>>

NextDecode == ParseFileInfo \/ ParseBody
SpecDecode == InitDecode /\ [][NextDecode]_vars

(***************************************************************************)
(* Claims about the decoders, checked under SpecDecode.                    *)
(***************************************************************************)
ParseBodyDone == call.op = "_parseBody" /\ ret # NoRet
ParseFileInfoDone == call.op = "_parseFileInfo" /\ ret # NoRet

\* the entries of a response body, in order
EntriesOf(responses) ==
  IF responses.kind = "array" THEN responses.items ELSE <<responses.entry>>

\* what each entry of a body decodes to, in order
Decoded(responses, trim) ==
  [k \in 1..Len(EntriesOf(responses)) |->
     _parseFileInfo(EntriesOf(responses)[k], trim)]

\* every entry decodes to null or to a FileInfo
AllDecode(decoded) ==
  \A k \in 1..Len(decoded) : decoded[k].kind \in {"null", "FileInfo"}

\* the number of entries that decode to null
NullCount(decoded) == Cardinality({k \in 1..Len(decoded) : decoded[k] = Null})

\* the records among the decoded entries, kept in their order
RECURSIVE Survivors(_)
Survivors(decoded) ==
  IF decoded = <<>> THEN <<>>
  ELSE IF Head(decoded) = Null THEN Survivors(Tail(decoded))
  ELSE <<Head(decoded)>> \o Survivors(Tail(decoded))

\* C1: for every multi-status input of N entries of which M decode to null,
\* _parseBody returns exactly N - M records, and they are the records of the
\* surviving entries in input order (nothing resorted, merged or put in place
\* of a dropped entry).
C1_BatchKeepsOrderAndCount ==
  ParseBodyDone =>
     LET decoded == Decoded(call.responses, call.leftTrimComponents) IN
     /\ ret.kind = "array"
     /\ Len(ret.items) = Len(decoded) - NullCount(decoded)
     /\ ret.items = Survivors(decoded)

\* What holds of _parseBody: the statement of C1 for the inputs whose entries
\* all decode, to null or to a FileInfo.
BatchKeepsOrderWhenAllDecode ==
  (ParseBodyDone /\ AllDecode(Decoded(call.responses, call.leftTrimComponents)))
    => C1_BatchKeepsOrderAndCount

\* three entries, the second dropped, the first and last kept in order
BatchOfThreeReached ==
  /\ ParseBodyDone
  /\ call.responses.kind = "array"
  /\ Len(call.responses.items) = 3
  /\ call.responses.items[1].href = HrefFile
  /\ call.responses.items[2].href = HrefForeign
  /\ call.responses.items[3].href = HrefSubdir
  /\ call.leftTrimComponents = 0
  /\ ret.kind = "array"
  /\ Len(ret.items) = 2
  /\ ret.items[1].name = "/files/a/b c"
  /\ ret.items[2].name = "/docs/subdir"

\* C2: for every entry whose propStat list is empty or whose first block has
\* a status other than 'HTTP/1.1 200 OK', _parseFileInfo returns null.
C2_FailedFirstBlockIsNull ==
  (/\ ParseFileInfoDone
   /\ \/ call.response.propStat = <<>>
      \/ Head(call.response.propStat).status # "HTTP/1.1 200 OK")
    => ret = Null

(***************************************************************************)
(* OCS Status Normaliser: _checkOCSstatus (lines 340-361) and              *)
(* _checkOCSstatusCode (lines 368-374).                                    *)
(*                                                                         *)
(* A parsed object is [kind |-> "object", fields |-> map], the map a       *)
(* function from its keys to their values; a key the object does not hold  *)
(* is not in the map.                                                      *)
(***************************************************************************)
\* the longest acceptedCodes array
MaxCodes == 2

Obj(fields) == [kind |-> "object", fields |-> fields]
\* marks a key that an object is built without
Absent == [kind |-> "absent"]
Field(key, v) == IF v = Absent THEN <<>> ELSE key :> v

\* v[key]: undefined for a key an object does not hold and for a key of a
\* string or number, a TypeError when v is undefined or null
Member(v, key) ==
  CASE v.kind \in {"undefined", "null"} -> Throw("TypeError")
    [] v.kind = "object" -> Get(v.fields, key)
    [] OTHER -> Undefined

\* v[key] after another read: an exception already thrown stays thrown
MemberOrThrown(v, key) == IF v.kind = "throw" THEN v ELSE Member(v, key)

\* Object.keys(v).length: the own keys of an object, the indices of a string,
\* none for a number, a TypeError for undefined and null
keysLength(v) ==
  CASE v.kind \in {"undefined", "null"} -> Throw("TypeError")
    [] v.kind = "object" -> Num(Cardinality(DOMAIN v.fields))
    [] v.kind = "string" -> Num(Len(v.val))
    [] OTHER -> Num(0)

\* the status code texts of the model and the integers they start with
Digits == ("100" :> 100) @@ ("404" :> 404) @@ ("999" :> 999)

\* parseInt(v): the integer a string starts with or a number is, else NaN
parseInt(v) ==
  CASE v.kind = "number" -> v
    [] v.kind = "string" /\ v.val \in DOMAIN Digits -> Num(Digits[v.val])
    [] OTHER -> NaN

\* array.indexOf(x) === -1: no element is strictly equal to x (NaN never is)
NotIn(array, x) == \A k \in 1..Len(array.items) : array.items[k] # x

\* if (!acceptedCodes) { acceptedCodes = [100] }   (lines 341-343)
acceptedOrDefault(acceptedCodes) ==
  IF ~Truthy(acceptedCodes) THEN Array(<<Num(100)>>) ELSE acceptedCodes

\* lines 345-348 without the test of json.ocs
metaOfUnguarded(json) == Member(Member(json, "ocs"), "meta")

\* lines 345-348: json.ocs.meta when json.ocs is truthy
metaOf(json) ==
  LET ocs == Member(json, "ocs") IN
  IF ocs.kind = "throw" THEN ocs
  ELSE IF Truthy(ocs) THEN Member(ocs, "meta")
  ELSE Undefined

\* lines 352-357 returning meta.message whatever it holds
errorValueMessageOnly(json, meta) == Member(meta, "message")

\* lines 352-357 returning the whole parsed response whatever the message
errorValueWholeResponse(json, meta) ==
  IF keysLength(Member(meta, "message")).kind = "throw"
    THEN Throw("TypeError") ELSE json

\* lines 352-357: meta.message, or the whole parsed response when the message
\* has no keys; a TypeError when Object.keys is given undefined or null
errorValue(json, meta) ==
  LET message == Member(meta, "message")
      n == keysLength(message)
  IN IF n.kind = "throw" THEN n
     ELSE IF n.val = 0 THEN json
     ELSE message

_checkOCSstatus(json, acceptedCodes) ==
  LET codes == acceptedOrDefault(acceptedCodes)
      meta == metaOf(json)
  IN IF meta.kind = "throw" THEN meta
     ELSE IF Truthy(meta) /\ NotIn(codes, parseInt(Member(meta, "statuscode")))
       THEN errorValue(json, meta)
     ELSE Undefined

_checkOCSstatusCode(json) ==
  IF Truthy(Member(json, "ocs"))
    THEN LET meta == Member(Member(json, "ocs"), "meta")
             statuscode == Member(meta, "statuscode")
         IN IF statuscode.kind = "throw" THEN statuscode
            ELSE parseInt(statuscode)
    ELSE Null

(***************************************************************************)
(* The parsed responses the normaliser is called with.                     *)
(***************************************************************************)
\* meta.statuscode: text (from XML), a number (from JSON), or missing
StatusCodes ==
  {Str("100"), Str("404"), Str("999"), Str("n/a"), Num(100), Num(404), Absent}

\* meta.message: a text, the empty text, an empty structure, a structure with
\* content, JSON null, or missing
Messages ==
  {Str("Wrong path"), Str("OK"), Str(""), Obj(<<>>),
   Obj("detail" :> Str("x")), Null, Absent}

Metas ==
  {Obj(Field("statuscode", c) @@ Field("message", m)) :
     c \in StatusCodes, m \in Messages}

\* json.ocs: missing, an object without meta, an object with meta
OcsValues ==
  {Absent, Obj("data" :> Str(""))}
    \cup {Obj(("meta" :> meta) @@ ("data" :> Str(""))) : meta \in Metas}

\* an OCS envelope: {ocs: {meta, data}}, with or without its parts
Envelopes == {Obj(Field("ocs", ocs)) : ocs \in OcsValues}

\* an error body from outside OCS: a top-level 'message' and no 'ocs'
MessageBodies == {Obj("message" :> Str("Token expired"))}

ParsedObjects == Envelopes \cup MessageBodies

Codes == {Num(100), Num(404), Num(999)}
AcceptedCodes ==
  {Undefined}
    \cup {Array(items) : items \in UNION {[1..n -> Codes] : n \in 0..MaxCodes}}

CheckOCSstatusCalls ==
  {[op |-> "_checkOCSstatus", json |-> json, acceptedCodes |-> codes] :
     json \in ParsedObjects, codes \in AcceptedCodes}

CheckOCSstatusCodeCalls ==
  {[op |-> "_checkOCSstatusCode", json |-> json] : json \in ParsedObjects}

\* _checkOCSstatus ending the session when it finds an error
CheckOCSstatusLoggingOut ==
  /\ call.op = "_checkOCSstatus"
  /\ ret = NoRet
  /\ ret' = _checkOCSstatus(call.json, call.acceptedCodes)
  /\ IF Truthy(ret')
       THEN /\ _authHeader' = Null
            /\ _currentUser' = Null
            /\ UNCHANGED <<call, instance, _webdavUrl, _davPath, _versionNumber,
                           requests>>
       ELSE UNCHANGED <<call, session, requests>>

CheckOCSstatus ==
  /\ call.op = "_checkOCSstatus"
  /\ ret = NoRet
  /\ ret' = _checkOCSstatus(call.json, call.acceptedCodes)
  /\ UNCHANGED <<call, session, requests>>

CheckOCSstatusCode ==
  /\ call.op = "_checkOCSstatusCode"
  /\ ret = NoRet
  /\ ret' = _checkOCSstatusCode(call.json)
  /\ UNCHANGED <<call, session, requests>>

(***************************************************************************)
(* The response callback of _makeOCSrequest (lines 192-229).               *)
(*                                                                         *)
(* A response body is [format, text, tree]: its raw text, whether that     *)
(* text is XML, JSON or neither, and what the parser of its format makes   *)
(* of it.                                                                  *)
(***************************************************************************)
\* parser.xml2js(body): the tree of an XML text, an exception otherwise
xml2js(body) ==
  IF body.format = "xml" THEN body.tree ELSE Throw("Error")

\* JSON.parse(body): the value of a JSON text, a SyntaxError otherwise
JSONparse(body) ==
  IF body.format = "json" THEN body.tree ELSE Throw("SyntaxError")

\* key in v: a TypeError unless v is an object
HasKey(key, v) ==
  IF v.kind = "object" THEN [kind |-> "boolean", val |-> key \in DOMAIN v.fields]
  ELSE Throw("TypeError")

Rejected(v) == [kind |-> "promise", state |-> "rejected", value |-> v]
Resolved(v) == [kind |-> "promise", state |-> "resolved", value |-> v]
Parsed(tree) == [kind |-> "parsed", tree |-> tree]
Pending == [kind |-> "promise", state |-> "pending"]
Bool(b) == [kind |-> "boolean", val |-> b]

\* line 219 rejecting without the raw body
invalidBodyWithoutText(body) == Rejected(Str("Invalid response body: "))

\* reject('Invalid response body: ' + body)   (line 219)
invalidBody(body) == Rejected(Str("Invalid response body: " \o body.text))

\* the try block of lines 199-205 with the status check of lines 201-205
\* left out
tryXmlIgnoringStatus(body) ==
  LET tree == xml2js(body) IN
  IF tree.kind = "throw" THEN tree ELSE Parsed(tree)

\* the try block of lines 199-205: a rejection, the tree to resolve with, or
\* the exception that takes control to the catch block
tryXml(body) ==
  LET tree == xml2js(body) IN
  IF tree.kind = "throw" THEN tree
  ELSE LET error == _checkOCSstatus(tree, Undefined) IN
       IF error.kind = "throw" THEN error
       ELSE IF Truthy(error) THEN Rejected(error)
       ELSE Parsed(tree)

\* the catch block of lines 206-222
tryJson(body) ==
  LET tree == JSONparse(body) IN
  IF tree.kind = "throw" THEN invalidBody(body)
  ELSE LET has == HasKey("message", tree) IN
       IF has.kind = "throw" THEN invalidBody(body)
       ELSE IF has.val THEN Rejected(Member(tree, "message"))
       ELSE LET error == _checkOCSstatus(tree, Undefined) IN
            IF error.kind = "throw" THEN invalidBody(body)
            ELSE IF Truthy(error) THEN Rejected(error)
            ELSE Parsed(tree)

\* lines 198-228: the calls of reject and resolve made, in order, once the
\* callback is past its test of the transport error.  Every reject of
\* lines 203, 210, 215, 219 is followed by a return, so that resolve (line
\* 224) is reached only when none was made.
settleCallsOfBody(response, body) ==
  LET x == tryXml(body)
      outcome == IF x.kind = "throw" THEN tryJson(body) ELSE x
  IN IF outcome.kind = "parsed"
       THEN <<Resolved(Obj(("response" :> response) @@ ("body" :> Str(body.text))
                             @@ ("data" :> outcome.tree)))>>
       ELSE <<outcome>>

\* the callback without the return of line 195
settleCallsFallingThrough(error, response, body) ==
  IF Truthy(error) THEN <<Rejected(error)>> \o settleCallsOfBody(response, body)
  ELSE settleCallsOfBody(response, body)

\* function (error, response, body) of lines 192-229: the calls of reject
\* and resolve it makes, in order
settleCalls(error, response, body) ==
  IF Truthy(error) THEN <<Rejected(error)>>
  ELSE settleCallsOfBody(response, body)

\* a promise is settled by the first call of resolve or reject; later calls
\* have no effect
settledBy(calls) == IF calls = <<>> THEN Pending ELSE Head(calls)

\* how the callback settles the promise of _makeOCSrequest
requestCallback(error, response, body) ==
  settledBy(settleCalls(error, response, body))

\* XML gives texts and structures only, under a single root element
XmlTrees ==
  {json \in Envelopes :
     /\ DOMAIN json.fields \in {{"ocs"}, {"message"}}
     /\ "ocs" \in DOMAIN json.fields =>
          LET meta == Member(json.fields["ocs"], "meta") IN
          meta # Undefined =>
            /\ Member(meta, "statuscode").kind # "number"
            /\ Member(meta, "message") # Null}

\* JSON gives objects and bare values
JsonTrees == Envelopes \cup MessageBodies \cup {Num(5), Null}

Bodies ==
  {[format |-> "xml", text |-> "<?xml version=\"1.0\"?>", tree |-> t] : t \in XmlTrees}
    \cup {[format |-> "json", text |-> "{..}", tree |-> t] : t \in JsonTrees}
    \cup {[format |-> "other", text |-> t, tree |-> Undefined] :
            t \in {"502 Bad Gateway", "<html>", ""}}

\* the error argument of the callback: none, or a transport error
TransportErrors == {Null, Str("ETIMEDOUT")}
Response200 == Obj("statusCode" :> Num(200))

CallbackCalls ==
  {[op |-> "requestCallback", error |-> e, response |-> Response200, body |-> b] :
     e \in TransportErrors, b \in Bodies}

RequestCallback ==
  /\ call.op = "requestCallback"
  /\ ret = NoRet
  /\ ret' = requestCallback(call.error, call.response, call.body)
  /\ UNCHANGED <<call, session, requests>>

(***************************************************************************)
(* DAV errors: _parseDAVerror (lines 290-305) and                          *)
(* buildHttpErrorFromDavResponse (lines 282-285).                          *)
(***************************************************************************)
\* new HttpError(status, message)   (line 284)
HttpError(status, message) ==
  [kind |-> "HttpError", statusCode |-> status, message |-> message]

\* the message read from a parsed body (lines 294-300 and 304), or the
\* exception of reading a member of null or undefined
davMessage(tree) ==
  LET derror == Member(tree, "d:error")
      message == MemberOrThrown(derror, "s:message")
  IN IF derror.kind = "throw" THEN derror
     ELSE IF Truthy(derror) /\ Truthy(message)
       THEN IF message.kind = "string" THEN message ELSE Str("")
     ELSE Str("Unknown error")

\* _parseDAVerror without its try and catch
_parseDAVerrorUncaught(body) ==
  LET tree == xml2js(body) IN
  IF tree.kind = "throw" THEN tree ELSE davMessage(tree)

_parseDAVerror(body) ==
  LET tree == xml2js(body)
      message == IF tree.kind = "throw" THEN tree ELSE davMessage(tree)
  IN IF message.kind = "throw" THEN Str("Unknown error") ELSE message

buildHttpErrorFromDavResponse(status, body) ==
  HttpError(status, _parseDAVerror(body))

\* s:message of a d:error: a text, an empty element, an element with
\* children, or no such element
DavMessages ==
  {Str("File with name a.txt could not be located"), Str("Not allowed"),
   Obj(<<>>), Obj("s:detail" :> Str("x")), Absent}

\* the bodies of failed DAV responses: d:error documents, a document with
\* another root, a document with a textual d:error, a document the parser
\* makes nothing of, and texts that are not XML
DavTrees ==
  {Obj("d:error" :> Obj(("s:exception" :> Str("Sabre\\DAV\\Exception\\NotFound"))
                          @@ Field("s:message", m))) : m \in DavMessages}
    \cup {Obj("d:multistatus" :> Obj(<<>>)), Obj("d:error" :> Str("gone")),
          Obj("d:error" :> Obj(<<>>)), Null}
DavBodies ==
  {[format |-> "xml", text |-> "<?xml version=\"1.0\"?>", tree |-> t] : t \in DavTrees}
    \cup {[format |-> "other", text |-> t, tree |-> Undefined] :
            t \in {"502 Bad Gateway", ""}}

DavStatuses == {Num(403), Num(404), Num(500)}

ParseDAVerrorCalls == {[op |-> "_parseDAVerror", body |-> b] : b \in DavBodies}
BuildHttpErrorCalls ==
  {[op |-> "buildHttpErrorFromDavResponse", status |-> st, body |-> b] :
     st \in DavStatuses, b \in DavBodies}

ParseDAVerror ==
  /\ call.op = "_parseDAVerror"
  /\ ret = NoRet
  /\ ret' = _parseDAVerror(call.body)
  /\ UNCHANGED <<call, session, requests>>

BuildHttpErrorFromDavResponse ==
  /\ call.op = "buildHttpErrorFromDavResponse"
  /\ ret = NoRet
  /\ ret' = buildHttpErrorFromDavResponse(call.status, call.body)
  /\ UNCHANGED <<call, session, requests>>

(***************************************************************************)
(* _OCSuserResponseHandler (lines 418-425).                                *)
(***************************************************************************)
\* what a run of the handler amounts to: the calls of its two callbacks, in
\* order (reject as Rejected(v), resolve as Resolved(v))
Calls(calls) == [kind |-> "calls", calls |-> calls]

PROVISIONING_DISABLED == "Provisioning API has been disabled at your instance"

\* _OCSuserResponseHandler (data, resolve, reject): the test of line 420 has
\* no return and no else, so line 423 runs whatever the status code is
_OCSuserResponseHandler(data) ==
  LET code == _checkOCSstatusCode(Member(data, "data")) IN
  IF code.kind = "throw" THEN code
  ELSE LET statuscode == parseInt(code) IN
       Calls((IF statuscode = Num(999)
                THEN <<Rejected(Str(PROVISIONING_DISABLED))>> ELSE <<>>)
               \o <<Resolved(Bool(TRUE))>>)

\* the handler is given what _makeOCSrequest resolves with
UserResponseHandlerCalls ==
  {[op |-> "_OCSuserResponseHandler",
    data |-> Obj(("response" :> Response200) @@ ("body" :> Str("<?xml version=\"1.0\"?>"))
                   @@ ("data" :> json))] : json \in ParsedObjects}

OCSuserResponseHandler ==
  /\ call.op = "_OCSuserResponseHandler"
  /\ ret = NoRet
  /\ ret' = _OCSuserResponseHandler(call.data)
  /\ UNCHANGED <<call, session, requests>>

InitOCS ==
  /\ Constructed
  /\ call \in CheckOCSstatusCalls \cup CheckOCSstatusCodeCalls \cup CallbackCalls
                \cup ParseDAVerrorCalls \cup BuildHttpErrorCalls
                \cup UserResponseHandlerCalls
  /\ ret = NoRet

NextOCS ==
  \/ CheckOCSstatus
  \/ CheckOCSstatusCode
  \/ RequestCallback
  \/ ParseDAVerror
  \/ BuildHttpErrorFromDavResponse
  \/ OCSuserResponseHandler
SpecOCS == InitOCS /\ [][NextOCS]_vars

\* the callback the transport has invoked runs to its end: nothing in lines
\* 192-229 waits or loops
SpecOCSFair == SpecOCS /\ WF_vars(RequestCallback)

(***************************************************************************)
(* Claims about the OCS Status Normaliser, checked under SpecOCS.          *)
(***************************************************************************)
CheckOCSstatusDone == call.op = "_checkOCSstatus" /\ ret # NoRet
CheckOCSstatusCodeDone == call.op = "_checkOCSstatusCode" /\ ret # NoRet
RequestCallbackDone == call.op = "requestCallback" /\ ret # NoRet

\* the parsed response holds an ocs.meta substructure
HasMeta(json) ==
  /\ json.kind = "object"
  /\ "ocs" \in DOMAIN json.fields
  /\ json.fields["ocs"].kind = "object"
  /\ "meta" \in DOMAIN json.fields["ocs"].fields

MetaField(json, key) ==
  LET meta == json.fields["ocs"].fields["meta"] IN
  IF key \in DOMAIN meta.fields THEN meta.fields[key] ELSE Undefined

\* the accepted status codes: the ones supplied, 100 when none is supplied
AcceptedSet(acceptedCodes) ==
  IF acceptedCodes = Undefined THEN {Num(100)}
  ELSE {acceptedCodes.items[k] : k \in 1..Len(acceptedCodes.items)}

\* meta.statuscode, as an integer, is one of the accepted codes
StatusAccepted(json, acceptedCodes) ==
  parseInt(MetaField(json, "statuscode")) \in AcceptedSet(acceptedCodes)

\* "no error": the call returned no value (undefined or null)
NoError(v) == v \in {Undefined, Null}

\* a returned error value that is not empty
ErrorValue(v) == v.kind \in {"string", "object"} /\ Truthy(v)

\* C6: _checkOCSstatus reports no error exactly when meta.statuscode, parsed
\* as an integer, is one of acceptedCodes ({100} by default); for every other
\* status code of an envelope with ocs.meta it returns a non-empty error value.
C6_ErrorExactlyWhenNotAccepted ==
  (CheckOCSstatusDone /\ HasMeta(call.json)) =>
     IF StatusAccepted(call.json, call.acceptedCodes)
       THEN NoError(ret)
       ELSE ErrorValue(ret)

\* the status code is not accepted and meta.message is a non-empty string
RefusedWithMessage(json, acceptedCodes) ==
  /\ HasMeta(json)
  /\ ~StatusAccepted(json, acceptedCodes)
  /\ MetaField(json, "message").kind = "string"
  /\ MetaField(json, "message").val # ""

\* C7: for every envelope whose status code is not accepted and whose
\* meta.message is a non-empty string, _checkOCSstatus returns exactly that
\* string, and a request answered with such an envelope (as XML or as JSON,
\* with no transport error) is rejected with that string.
C7_MessageIsTheError ==
  /\ (CheckOCSstatusDone /\ RefusedWithMessage(call.json, call.acceptedCodes))
       => ret = MetaField(call.json, "message")
  /\ (/\ RequestCallbackDone
      /\ ~Truthy(call.error)
      /\ call.body.format \in {"xml", "json"}
      /\ RefusedWithMessage(call.body.tree, Undefined))
       => ret = Rejected(MetaField(call.body.tree, "message"))

\* C7 witness: a request answered with status 404 and the message 'Wrong
\* path' has been rejected with 'Wrong path'
C7_Witness ==
  /\ RequestCallbackDone
  /\ call.error = Null
  /\ HasMeta(call.body.tree)
  /\ MetaField(call.body.tree, "statuscode") = Str("404")
  /\ MetaField(call.body.tree, "message") = Str("Wrong path")
  /\ ret = Rejected(Str("Wrong path"))

\* the status code is not accepted and meta.message is the empty string or
\* an empty structure
RefusedWithoutMessage(json, acceptedCodes) ==
  /\ HasMeta(json)
  /\ ~StatusAccepted(json, acceptedCodes)
  /\ MetaField(json, "message") \in {Str(""), Obj(<<>>)}

\* C8: for every envelope whose status code is not accepted and whose
\* meta.message is empty (a zero-length string or an empty structure),
\* _checkOCSstatus returns the whole parsed envelope: not an empty string and
\* not "no error".
C8_EmptyMessageGivesEnvelope ==
  (CheckOCSstatusDone /\ RefusedWithoutMessage(call.json, call.acceptedCodes))
    => /\ ret = call.json
       /\ ret # Str("")
       /\ ~NoError(ret)

\* C8 witness: status 404 with the message '' returned the envelope
C8_Witness ==
  /\ CheckOCSstatusDone
  /\ call.acceptedCodes = Undefined
  /\ HasMeta(call.json)
  /\ MetaField(call.json, "statuscode") = Str("404")
  /\ MetaField(call.json, "message") = Str("")
  /\ ret = call.json

C10_StatusCodeOrNull ==
  CheckOCSstatusCodeDone =>
     IF HasMeta(call.json)
       THEN ret = parseInt(MetaField(call.json, "statuscode"))
       ELSE ret = Null

\* What holds of _parseFileInfo: the statement of C2 for the entries whose
\* href pieces all percent-decode.
FailedFirstBlockIsNullWhenHrefDecodes ==
  (ParseFileInfoDone /\ AllPiecesDecode(call.response.href))
    => C2_FailedFirstBlockIsNull

\* What holds of _checkOCSstatus: the statement of C6 for the envelopes whose
\* meta holds a message that is not null.
StatusDecidesWhenMessagePresent ==
  (/\ CheckOCSstatusDone
   /\ HasMeta(call.json)
   /\ MetaField(call.json, "message") \notin {Undefined, Null})
    => C6_ErrorExactlyWhenNotAccepted

\* What holds of _checkOCSstatusCode: the statement of C10 for the envelopes
\* that hold ocs.meta or no truthy 'ocs' at all.
StatusCodeWhenMetaOrNoOcs ==
  (/\ CheckOCSstatusCodeDone
   /\ HasMeta(call.json) \/ "ocs" \notin DOMAIN call.json.fields)
    => C10_StatusCodeOrNull

(***************************************************************************)
(* The session and the Request Facade: setInstance, setAuthorization,      *)
(* logout, setCurrentUser (lines 41-103), buildHeaders and atLeastVersion  *)
(* (lines 120-140), and the request operations _makeOCSrequest (lines      *)
(* 151-231), getCapabilities, _updateCurrentUser, _get (lines 239-280) and *)
(* ocs (lines 521-543).                                                    *)
(*                                                                         *)
(* A request operation returns a promise at once.  When it hands a request *)
(* to the transport (request(options, callback) or fetch(url, init)), the  *)
(* request joins `requests` and stays there until the transport answers    *)
(* it; the answer settles the promise.                                     *)
(***************************************************************************)
\* the most requests in flight at a time
MaxRequests == 2


\* the string a value becomes when '+' joins it to a string
toStr(v) ==
  CASE v.kind = "string" -> v.val
    [] v.kind = "number" -> ToString(v.val)
    [] v.kind = "null" -> "null"
    [] v.kind = "undefined" -> "undefined"

\* an Error object, as a promise is rejected with when a handler throws
Error(name) == [kind |-> "error", name |-> name]

OCS_BASEPATH == "ocs/v1.php/"
OCS_BASEPATH_V2 == "ocs/v2.php/"
OCS_SERVICE_CLOUD == "cloud"

\* semver.gte(a, b) on the version numbers of the model
SemVer ==
  ("10.0.9" :> <<10, 0, 9>>) @@ ("10.1.0" :> <<10, 1, 0>>)
    @@ ("10.2.0" :> <<10, 2, 0>>)
gte(a, b) ==
  LET x == SemVer[a]
      y == SemVer[b]
  IN \/ x[1] > y[1]
     \/ x[1] = y[1] /\ x[2] > y[2]
     \/ x[1] = y[1] /\ x[2] = y[2] /\ x[3] >= y[3]

\* atLeastVersion (minVersion)   (lines 134-140)
atLeastVersion(versionNumber, minVersion) ==
  IF versionNumber = Null THEN FALSE ELSE gte(versionNumber.val, minVersion)

\* buildHeaders (withAuthHeader = true)   (lines 120-132); uuidv4() is "<uuid>"
buildHeaders(authHeader, versionNumber, withAuthHeader) ==
  ("OCS-APIREQUEST" :> Bool(TRUE)) @@ ("X-Requested-With" :> Str("XMLHttpRequest"))
    @@ (IF withAuthHeader THEN "authorization" :> authHeader ELSE <<>>)
    @@ (IF atLeastVersion(versionNumber, "10.1.0")
          THEN "X-Request-ID" :> Str("<uuid>") ELSE <<>>)

\* lines 154-160 with the test of the authorization header left out
preconditionErrorInstanceOnly(inst, authHeader) ==
  IF ~Truthy(inst) THEN Str("Please specify a server URL first") ELSE Null

\* the two tests of lines 154-160: the message _makeOCSrequest rejects with,
\* or null when it goes on to the request
preconditionError(inst, authHeader) ==
  IF ~Truthy(inst) THEN Str("Please specify a server URL first")
  ELSE IF ~Truthy(authHeader) THEN Str("Please specify an authorization first.")
  ELSE Null

\* err of lines 240-248 in _get: the second test overwrites the first
getPreconditionError(inst, authHeader) ==
  LET err == IF ~Truthy(inst) THEN Str("Please specify a server URL first")
             ELSE Null
  IN IF ~Truthy(authHeader) THEN Str("Please specify an authorization first.")
     ELSE err

\* what a request operation has done when it returns: the promise it returns
\* and the set of the requests (none or one) it handed to the transport
Outcome(promise, sent) == [promise |-> promise, sent |-> sent]

\* a request handed to the transport by operation op
Request(op, via, url, method, headers, body) ==
  [op |-> op, via |-> via, url |-> url, method |-> method, headers |-> headers,
   body |-> body]

\* _makeOCSrequest (method, service, action, data), lines 151-190, called
\* without data: serialize(undefined) is ''.  op names the caller.
_makeOCSrequest(op, inst, authHeader, versionNumber, method, service, action) ==
  LET err == preconditionError(inst, authHeader) IN
  IF err # Null THEN Outcome(Rejected(err), {})
  ELSE LET headers == buildHeaders(authHeader, versionNumber, TRUE)
             @@ ("content-type" :> Str("application/x-www-form-urlencoded"))
           slash == IF service # "" THEN "/" ELSE ""
           path == OCS_BASEPATH \o service \o slash \o action
       IN Outcome(Pending,
                  {Request(op, "request", toStr(inst) \o path, method, headers,
                           Str(""))})

\* _get (url), lines 239-268
_get(inst, authHeader, url) ==
  LET err == getPreconditionError(inst, authHeader)
      headers == ("authorization" :> authHeader)
        @@ ("Content-Type" :> Str("application/x-www-form-urlencoded"))
  IN IF Truthy(err) THEN Outcome(Rejected(err), {})
     ELSE Outcome(Pending,
                  {Request("_get", "request", url, "GET", headers, Undefined)})

\* ocs (options = {}), lines 521-543; options holds method, service, action
\* and data after Object.assign (line 528)
ocs(inst, authHeader, versionNumber, options) ==
  LET mark == IF options.hasQuery THEN "&format=json" ELSE "?format=json"
      url == toStr(inst) \o OCS_BASEPATH_V2 \o options.service \o "/"
               \o options.action \o mark
      headers == buildHeaders(authHeader, versionNumber, TRUE)
      init == IF options.data # Null
                THEN headers @@ ("Content-Type" :> Str("application/json"))
                ELSE headers
  IN Outcome(Pending,
             {Request("ocs", "fetch", url, options.method, init,
                      IF options.data # Null THEN options.data ELSE Undefined)})

\* the handler getCapabilities chains to the promise (lines 74-78): the
\* version number it stores and the promise it settles, or the TypeError of
\* reading a member of undefined
capabilitiesThen(data) ==
  LET body == MemberOrThrown(MemberOrThrown(Member(data, "data"), "ocs"), "data")
      version == MemberOrThrown(body, "version")
      major == MemberOrThrown(version, "major")
      minor == MemberOrThrown(version, "minor")
      micro == MemberOrThrown(version, "micro")
  IN IF major.kind = "throw" THEN [promise |-> Rejected(Error(major.err))]
     ELSE [promise |-> Resolved(body),
           versionNumber |->
             Str(toStr(major) \o "." \o toStr(minor) \o "." \o toStr(micro))]

\* the handler of lines 113-117 resolving with the user without keeping it
updateCurrentUserThenNotStoring(data) ==
  LET user == MemberOrThrown(MemberOrThrown(Member(data, "data"), "ocs"), "data") IN
  IF user.kind = "throw" THEN [promise |-> Rejected(Error(user.err))]
  ELSE [promise |-> Resolved(user)]

\* the handler _updateCurrentUser chains to the promise (lines 113-117)
updateCurrentUserThen(data) ==
  LET user == MemberOrThrown(MemberOrThrown(Member(data, "data"), "ocs"), "data") IN
  IF user.kind = "throw" THEN [promise |-> Rejected(Error(user.err))]
  ELSE [promise |-> Resolved(user), currentUser |-> user]

\* the callback of _get (lines 269-278)
getCallback(error, response, body) ==
  IF Truthy(error) THEN Rejected(error)
  ELSE Resolved(Obj(("response" :> response) @@ ("body" :> Str(body.text))))

\* fetch(url, init) settles with the response, or with a TypeError when the
\* network fails
fetchSettles(error, response) ==
  IF Truthy(error) THEN Rejected(Error("TypeError")) ELSE Resolved(response)

(***************************************************************************)
(* What the session is driven with.                                        *)
(***************************************************************************)
\* the instance URL a client is given, and the authorization headers: a
\* Basic header and the empty string
InstanceUrls == {Str("https://oc.example/")}
AuthHeaders == {Str(""), Str("Basic YWRtaW4=")}
Users == {Null, Obj("id" :> Str("admin"))}

OcsTree(statuscode, message, data) ==
  Obj("ocs" :> Obj(("meta" :> Obj(("statuscode" :> Str(statuscode))
                                    @@ ("message" :> Str(message))))
                     @@ Field("data", data)))

\* the answers of a server: the capabilities, the user, an answer without
\* data, a refusal, a JSON answer whose data is null, and a body that is
\* neither XML nor JSON
CapabilitiesTree ==
  OcsTree("100", "OK",
          Obj("version" :> Obj(("major" :> Str("10")) @@ ("minor" :> Str("2"))
                                 @@ ("micro" :> Str("0")))))
UserTree == OcsTree("100", "OK", Obj("id" :> Str("admin")))
SessionBodies ==
  {[format |-> "xml", text |-> "<?xml version=\"1.0\"?>", tree |-> t] :
     t \in {CapabilitiesTree, UserTree, OcsTree("100", "OK", Absent),
            OcsTree("404", "Wrong path", Absent)}}
    \cup {[format |-> "json", text |-> "{..}", tree |-> OcsTree("100", "OK", Null)]}
    \cup {[format |-> "other", text |-> "502 Bad Gateway", tree |-> Undefined]}

\* what the transport calls back with: an error and no body, or a body
Answers ==
  {[error |-> Str("ETIMEDOUT"), body |-> [format |-> "other", text |-> "", tree |-> Undefined]]}
    \cup {[error |-> Null, body |-> b] : b \in SessionBodies}

\* the arguments of the direct calls of _makeOCSrequest
OcsRequestArgs ==
  {[method |-> "GET", service |-> OCS_SERVICE_CLOUD, action |-> "capabilities"],
   [method |-> "POST", service |-> "", action |-> "config"]}

\* the options of ocs() after the defaults are merged in (line 528);
\* hasQuery is options.action.includes('?')
OcsOptions ==
  {[method |-> "GET", service |-> OCS_SERVICE_CLOUD, action |-> "user",
    hasQuery |-> FALSE, data |-> Null],
   [method |-> "POST", service |-> "apps/files_sharing/api/v1",
    action |-> "shares?path=a", hasQuery |-> TRUE,
    data |-> Obj("permissions" :> Num(1))]}

GetUrls == {"https://oc.example/index.php/apps/files/api/v1/thumbnail"}

(***************************************************************************)
(* The operations of the session.                                          *)
(***************************************************************************)
InitSession ==
  /\ Constructed
  /\ call = NoCall
  /\ ret = NoRet

\* a request operation returns: the caller holds the promise, the transport
\* the request
Returns(outcome) ==
  /\ ret' = outcome.promise
  /\ requests' = requests (+) SetToBag(outcome.sent)

\* setInstance (instance)   (lines 41-45)
SetInstance ==
  \E i \in InstanceUrls :
    /\ instance' = i
    /\ _webdavUrl' = Str(toStr(i) \o "remote.php/webdav")
    /\ _davPath' = Str(toStr(i) \o "remote.php/dav")
    /\ call' = [op |-> "setInstance", instance |-> i]
    /\ ret' = Undefined
    /\ UNCHANGED <<_authHeader, _versionNumber, _currentUser, requests>>

\* setAuthorization (authHeader)   (lines 55-57)
SetAuthorization ==
  \E authHeader \in AuthHeaders :
    /\ _authHeader' = authHeader
    /\ call' = [op |-> "setAuthorization", authHeader |-> authHeader]
    /\ ret' = Undefined
    /\ UNCHANGED <<instance, _webdavUrl, _davPath, _versionNumber, _currentUser,
                   requests>>

\* logout () forgetting the current user only
LogoutKeepingAuthorization ==
  /\ _currentUser' = Null
  /\ call' = [op |-> "logout"]
  /\ ret' = Undefined
  /\ UNCHANGED <<instance, _webdavUrl, _davPath, _authHeader, _versionNumber,
                 requests>>

\* logout ()   (lines 63-66)
Logout ==
  /\ _authHeader' = Null
  /\ _currentUser' = Null
  /\ call' = [op |-> "logout"]
  /\ ret' = Undefined
  /\ UNCHANGED <<instance, _webdavUrl, _davPath, _versionNumber, requests>>

\* setCurrentUser (userInfo)   (lines 101-103)
SetCurrentUser ==
  \E userInfo \in Users :
    /\ _currentUser' = userInfo
    /\ call' = [op |-> "setCurrentUser", userInfo |-> userInfo]
    /\ ret' = Undefined
    /\ UNCHANGED <<instance, _webdavUrl, _davPath, _authHeader, _versionNumber,
                   requests>>

\* a direct call of _makeOCSrequest
MakeOCSrequest ==
  \E args \in OcsRequestArgs :
    /\ BagCardinality(requests) < MaxRequests
    /\ call' = [op |-> "_makeOCSrequest", args |-> args]
    /\ Returns(_makeOCSrequest("_makeOCSrequest", instance, _authHeader,
                               _versionNumber, args.method, args.service,
                               args.action))
    /\ UNCHANGED session

\* getCapabilities (), up to the return of the promise   (lines 72-79)
GetCapabilities ==
  /\ BagCardinality(requests) < MaxRequests
  /\ call' = [op |-> "getCapabilities"]
  /\ Returns(_makeOCSrequest("getCapabilities", instance, _authHeader,
                             _versionNumber, "GET", OCS_SERVICE_CLOUD,
                             "capabilities"))
  /\ UNCHANGED session

\* getCurrentUserAsync (), up to the return of the promise (lines 89-95 and
\* 110-112)
GetCurrentUserAsync ==
  /\ BagCardinality(requests) < MaxRequests
  /\ call' = [op |-> "getCurrentUserAsync"]
  /\ IF _currentUser # Null
       THEN Returns(Outcome(Resolved(_currentUser), {}))
       ELSE Returns(_makeOCSrequest("_updateCurrentUser", instance, _authHeader,
                                    _versionNumber, "GET", OCS_SERVICE_CLOUD,
                                    "user"))
  /\ UNCHANGED session

\* _get (url), up to the return of the promise
GetUrl ==
  \E url \in GetUrls :
    /\ BagCardinality(requests) < MaxRequests
    /\ call' = [op |-> "_get", url |-> url]
    /\ Returns(_get(instance, _authHeader, url))
    /\ UNCHANGED session

\* ocs (options)
Ocs ==
  \E options \in OcsOptions :
    /\ BagCardinality(requests) < MaxRequests
    /\ call' = [op |-> "ocs", options |-> options]
    /\ Returns(ocs(instance, _authHeader, _versionNumber, options))
    /\ UNCHANGED session

\* The transport answers a request in flight: the callback of the operation
\* that issued it runs, then the handler chained to its promise.
Answer ==
  \E r \in BagToSet(requests), answer \in Answers :
    LET settled == requestCallback(answer.error, Response200, answer.body)
        then == IF settled.state # "resolved" THEN [promise |-> settled]
                ELSE IF r.op = "getCapabilities" THEN capabilitiesThen(settled.value)
                ELSE IF r.op = "_updateCurrentUser"
                  THEN updateCurrentUserThen(settled.value)
                ELSE [promise |-> settled]
    IN /\ requests' = requests (-) SetToBag({r})
       /\ call' = [op |-> "answer", to |-> r.op, answer |-> answer]
       /\ ret' = CASE r.op = "_get" ->
                        getCallback(answer.error, Response200, answer.body)
                   [] r.op = "ocs" -> fetchSettles(answer.error, Response200)
                   [] OTHER -> then.promise
       /\ _versionNumber' =
            IF r.via = "request" /\ r.op # "_get" /\ "versionNumber" \in DOMAIN then
              THEN then.versionNumber ELSE _versionNumber
       /\ _currentUser' =
            IF r.via = "request" /\ r.op # "_get" /\ "currentUser" \in DOMAIN then
              THEN then.currentUser ELSE _currentUser
       /\ UNCHANGED <<instance, _webdavUrl, _davPath, _authHeader>>

(***************************************************************************)
(* URI Utilities: _normalizePath (lines 312-326) and _encodeUri (lines     *)
(* 328-332).                                                               *)
(*                                                                         *)
(* Here a string is held character by character, as                        *)
(* [kind |-> "text", chars |-> <<"/", "a">>], so that its first character  *)
(* can be tested and each character encoded.                               *)
(***************************************************************************)
\* the longest path, in characters
MaxChars == 4

Text(chars) == [kind |-> "text", chars |-> chars]

\* the characters of the model: the separator, unreserved characters (of
\* which two are hexadecimal digits), and two characters encodeURIComponent
\* escapes
Chars == {"/", "a", "~", "2", "F", " ", "%"}

\* _normalizePath putting a '/' in front of every path that is not empty
_normalizePathAlwaysPrefix(path) ==
  LET p == IF ~Truthy(path) THEN <<>> ELSE path.chars IN
  IF Len(p) = 0 THEN Text(<<"/">>) ELSE Text(<<"/">> \o p)

_normalizePath(path) ==
  LET p == IF ~Truthy(path) THEN <<>> ELSE path.chars IN
  IF Len(p) = 0 THEN Text(<<"/">>)
  ELSE IF p[1] # "/" THEN Text(<<"/">> \o p)
  ELSE Text(p)

\* what encodeURIComponent writes for the characters it escapes; every other
\* character of the model is unreserved and stays as it is
Escapes ==
  ("/" :> <<"%", "2", "F">>) @@ (" " :> <<"%", "2", "0">>)
    @@ ("%" :> <<"%", "2", "5">>)

RECURSIVE encodeURIComponent(_)
encodeURIComponent(chars) ==
  IF chars = <<>> THEN <<>>
  ELSE (IF Head(chars) \in DOMAIN Escapes THEN Escapes[Head(chars)]
        ELSE <<Head(chars)>>) \o encodeURIComponent(Tail(chars))

\* path.split('%2F').join('/')   (line 331)
RECURSIVE splitJoin(_)
splitJoin(chars) ==
  IF chars = <<>> THEN <<>>
  ELSE IF Len(chars) >= 3 /\ SubSeq(chars, 1, 3) = <<"%", "2", "F">>
    THEN <<"/">> \o splitJoin(SubSeq(chars, 4, Len(chars)))
  ELSE <<Head(chars)>> \o splitJoin(Tail(chars))

\* _encodeUri escaping the whole path, separators included
_encodeUriWholePath(path) == Text(encodeURIComponent(_normalizePath(path).chars))

_encodeUri(path) ==
  Text(splitJoin(encodeURIComponent(_normalizePath(path).chars)))

\* the paths the utilities are called with: every text of at most MaxChars
\* characters, and a missing value
PathArgs ==
  {Undefined, Null}
    \cup {Text(chars) : chars \in UNION {[1..n -> Chars] : n \in 0..MaxChars}}

NormalizePathCalls == {[op |-> "_normalizePath", path |-> p] : p \in PathArgs}
EncodeUriCalls == {[op |-> "_encodeUri", path |-> p] : p \in PathArgs}

InitUri ==
  /\ Constructed
  /\ call \in NormalizePathCalls \cup EncodeUriCalls
  /\ ret = NoRet

NormalizePath ==
  /\ call.op = "_normalizePath"
  /\ ret = NoRet
  /\ ret' = _normalizePath(call.path)
  /\ UNCHANGED <<call, session, requests>>

EncodeUri ==
  /\ call.op = "_encodeUri"
  /\ ret = NoRet
  /\ ret' = _encodeUri(call.path)
  /\ UNCHANGED <<call, session, requests>>

NextUri == NormalizePath \/ EncodeUri
SpecUri == InitUri /\ [][NextUri]_vars

(***************************************************************************)
(* Full URLs: _buildFullWebDAVPath and _buildFullWebDAVPathV2 (lines       *)
(* 385-391), called in a session.                                          *)
(***************************************************************************)
\* the characters of a text put together as one string
RECURSIVE textToString(_)
textToString(chars) ==
  IF chars = <<>> THEN "" ELSE Head(chars) \o textToString(Tail(chars))

\* _buildFullWebDAVPath appending the path as it is given
_buildFullWebDAVPathRaw(webdavUrl, path) ==
  Str(toStr(webdavUrl)
        \o (IF path.kind = "text" THEN textToString(path.chars) ELSE toStr(path)))

\* this._webdavUrl + this._encodeUri(path)   (line 386)
_buildFullWebDAVPath(webdavUrl, path) ==
  Str(toStr(webdavUrl) \o textToString(_encodeUri(path).chars))

\* this._davPath + this._encodeUri(path)   (line 390)
_buildFullWebDAVPathV2(davPath, path) ==
  Str(toStr(davPath) \o textToString(_encodeUri(path).chars))

\* the longest path, in characters, a URL is built for besides the test's
MaxUrlChars == 2

\* the paths URLs are built for: the path of the getFileUrl test (line 995)
\* with and without its leading '/', every text of at most MaxUrlChars
\* characters, and a missing value
FilePaths ==
  {Text(<<"/", "foo", "/", "bar">>), Text(<<"foo", "/", "bar">>), Undefined, Null}
    \cup {Text(chars) : chars \in UNION {[1..n -> Chars] : n \in 0..MaxUrlChars}}

BuildFullWebDAVPath ==
  \E path \in FilePaths :
    /\ call' = [op |-> "_buildFullWebDAVPath", path |-> path]
    /\ ret' = _buildFullWebDAVPath(_webdavUrl, path)
    /\ UNCHANGED <<session, requests>>

BuildFullWebDAVPathV2 ==
  \E path \in FilePaths :
    /\ call' = [op |-> "_buildFullWebDAVPathV2", path |-> path]
    /\ ret' = _buildFullWebDAVPathV2(_davPath, path)
    /\ UNCHANGED <<session, requests>>

NextSession ==
  \/ SetInstance
  \/ SetAuthorization
  \/ Logout
  \/ SetCurrentUser
  \/ MakeOCSrequest
  \/ GetCapabilities
  \/ GetCurrentUserAsync
  \/ GetUrl
  \/ Ocs
  \/ Answer
SpecSession == InitSession /\ [][NextSession]_vars

\* building file URLs on a constructed instance, before and after setInstance
NextUrl ==
  \/ SetInstance
  \/ BuildFullWebDAVPath
  \/ BuildFullWebDAVPathV2
SpecUrl == InitSession /\ [][NextUrl]_vars

(***************************************************************************)
(* Claims about the response callback of _makeOCSrequest, checked under    *)
(* SpecOCS.                                                                *)
(***************************************************************************)
\* the callback was given a body that parses, as XML or as JSON, to an
\* envelope with ocs.meta whose status code is not the accepted code 100
AnsweredWithRefusal ==
  /\ RequestCallbackDone
  /\ call.body.format \in {"xml", "json"}
  /\ HasMeta(call.body.tree)
  /\ ~StatusAccepted(call.body.tree, Undefined)

\* C11: the promise of _makeOCSrequest is resolved only if the parsed
\* envelope has no ocs.meta or has the accepted status code 100; for every
\* body whose envelope carries another status code the promise is rejected,
\* whatever meta.message is (a text, the empty text, an empty structure, or
\* missing).
C11_ResolvedOnlyWhenAccepted ==
  /\ (RequestCallbackDone /\ ret.state = "resolved")
       => /\ call.body.format \in {"xml", "json"}
          /\ \/ ~HasMeta(call.body.tree)
             \/ StatusAccepted(call.body.tree, Undefined)
  /\ AnsweredWithRefusal => ret.state = "rejected"

\* C11 witness: an XML body with status 404 and no message element has been
\* rejected
C11_Witness ==
  /\ AnsweredWithRefusal
  /\ call.error = Null
  /\ call.body.format = "xml"
  /\ MetaField(call.body.tree, "statuscode") = Str("404")
  /\ MetaField(call.body.tree, "message") = Undefined
  /\ ret.state = "rejected"

\* C11, the other side: a body with status 100 has been resolved with its tree
C11_ResolvedReached ==
  /\ RequestCallbackDone
  /\ HasMeta(call.body.tree)
  /\ MetaField(call.body.tree, "statuscode") = Str("100")
  /\ ret.state = "resolved"
  /\ ret.value.fields["data"] = call.body.tree

\* C18: when the response body is neither valid XML nor valid JSON (and the
\* transport reported no error), _makeOCSrequest rejects with the string
\* 'Invalid response body: ' followed by the raw body, and does not resolve.
C18_UnparseableBodyRejects ==
  (RequestCallbackDone /\ ~Truthy(call.error) /\ call.body.format = "other")
    => /\ ret = Rejected(Str("Invalid response body: " \o call.body.text))
       /\ ret.state # "resolved"

\* C18 witness: the body '502 Bad Gateway' has been rejected as invalid
C18_Witness ==
  /\ RequestCallbackDone
  /\ call.error = Null
  /\ call.body.text = "502 Bad Gateway"
  /\ ret = Rejected(Str("Invalid response body: 502 Bad Gateway"))

\* the promise is settled, one way or the other
Settled == ret.kind = "promise" /\ ret.state \in {"resolved", "rejected"}

\* C25: each run of the callback of _makeOCSrequest settles the promise
\* exactly once: on every path (transport error, XML body, JSON body, JSON
\* body with a top-level 'message', unparseable body) exactly one call of
\* resolve or reject is made; and whenever the transport invokes the
\* callback, the promise is eventually settled.
C25_SettledExactlyOnce ==
  /\ [](RequestCallbackDone =>
          LET calls == settleCalls(call.error, call.response, call.body) IN
          /\ Len(calls) = 1
          /\ ret = calls[1]
          /\ Settled)
  /\ (call.op = "requestCallback") ~> Settled

\* C25 witness: a JSON body with a top-level 'message' has been rejected
\* with that message, by the one call of reject
C25_Witness ==
  /\ RequestCallbackDone
  /\ call.error = Null
  /\ call.body.format = "json"
  /\ call.body.tree \in MessageBodies
  /\ ret = Rejected(Member(call.body.tree, "message"))

\* C25, a transport error has rejected the promise
C25_TransportErrorReached ==
  /\ RequestCallbackDone
  /\ call.error = Str("ETIMEDOUT")
  /\ ret = Rejected(Str("ETIMEDOUT"))

\* the callback was given, without a transport error, a body that is valid
\* XML or valid JSON
AnsweredWithParseableBody ==
  /\ RequestCallbackDone
  /\ call.error = Null
  /\ call.body.format \in {"xml", "json"}

RejectedAsInvalidBody ==
  /\ ret.state = "rejected"
  /\ ret.value = Str("Invalid response body: " \o call.body.text)

\* C27: a response body that parses as valid XML or valid JSON is never
\* rejected with 'Invalid response body', whatever it holds: an OCS error
\* envelope without a message element and a JSON bare scalar included.
C27_ParseableBodyNeverInvalid ==
  AnsweredWithParseableBody => ~RejectedAsInvalidBody

\* a parseable body is rejected as invalid only when reading it throws: a
\* refused status without message, or JSON that is no object
InvalidOnlyWhenReadingThrows ==
  (AnsweredWithParseableBody /\ RejectedAsInvalidBody) =>
    LET tree == call.body.tree IN
    \/ tree.kind # "object"
    \/ _checkOCSstatus(tree, Undefined).kind = "throw"

\* an XML envelope with status 404 and no message element has been rejected
\* as an invalid body
XmlRefusalWithoutMessageReached ==
  /\ AnsweredWithParseableBody
  /\ RejectedAsInvalidBody
  /\ call.body.format = "xml"
  /\ call.body.tree =
       Obj("ocs" :> Obj(("meta" :> Obj("statuscode" :> Str("404")))
                          @@ ("data" :> Str(""))))

\* the JSON text of a bare number has been rejected as an invalid body
JsonScalarInvalidReached ==
  /\ AnsweredWithParseableBody
  /\ RejectedAsInvalidBody
  /\ call.body.tree = Num(5)

(***************************************************************************)
(* Claims about _OCSuserResponseHandler, checked under SpecOCS.            *)
(***************************************************************************)
UserResponseHandlerDone == call.op = "_OCSuserResponseHandler" /\ ret # NoRet

\* the status code of the response the handler was given is 999
StatusIs999 ==
  LET tree == call.data.fields["data"] IN
  /\ HasMeta(tree)
  /\ Member(Member(Member(tree, "ocs"), "meta"), "statuscode") \in {Str("999"), Num(999)}

\* C26: _OCSuserResponseHandler invokes exactly one of its two callbacks:
\* when the OCS status code is 999 it calls reject with 'Provisioning API
\* has been disabled at your instance' and does not call resolve; for every
\* other response it calls resolve(true) and does not call reject.
C26_ExactlyOneCallback ==
  UserResponseHandlerDone =>
    /\ ret.kind = "calls"
    /\ ret.calls = IF StatusIs999 THEN <<Rejected(Str(PROVISIONING_DISABLED))>>
                   ELSE <<Resolved(Bool(TRUE))>>

\* apart from status 999, a response with ocs.meta or without ocs has
\* resolve(true) called and nothing else
OneCallbackUnless999OrNoMeta ==
  (/\ UserResponseHandlerDone
   /\ ~StatusIs999
   /\ LET tree == call.data.fields["data"] IN
      HasMeta(tree) \/ ~Truthy(Member(tree, "ocs")))
    => ret = Calls(<<Resolved(Bool(TRUE))>>)

\* status 999: reject has been called, and then resolve
BothCallbacksReached ==
  /\ UserResponseHandlerDone
  /\ StatusIs999
  /\ ret = Calls(<<Rejected(Str(PROVISIONING_DISABLED)), Resolved(Bool(TRUE))>>)

\* a response whose ocs has no meta: the handler has thrown
HandlerThrownReached ==
  /\ UserResponseHandlerDone
  /\ ret.kind = "throw"

(***************************************************************************)
(* Claims about DAV errors, checked under SpecOCS.                         *)
(***************************************************************************)
ParseDAVerrorDone == call.op = "_parseDAVerror" /\ ret # NoRet
BuildHttpErrorDone == call.op = "buildHttpErrorFromDavResponse" /\ ret # NoRet

\* the body parses and its d:error holds an s:message element
HasDavMessageElement(body) ==
  /\ body.format = "xml"
  /\ body.tree.kind = "object"
  /\ "d:error" \in DOMAIN body.tree.fields
  /\ body.tree.fields["d:error"].kind = "object"
  /\ "s:message" \in DOMAIN body.tree.fields["d:error"].fields

DavMessageElement(body) == body.tree.fields["d:error"].fields["s:message"]

C22_UnknownErrorReached ==
  /\ BuildHttpErrorDone
  /\ call.body.format = "other"
  /\ ret = HttpError(call.status, Str("Unknown error"))

\* What the code does with an s:message that is no text: the message is ''
DavMessageWithoutTextIsEmpty ==
  (/\ BuildHttpErrorDone
   /\ HasDavMessageElement(call.body)
   /\ DavMessageElement(call.body).kind # "string")
    => ret.message = Str("")

(***************************************************************************)
(* More claims about the decoders, checked under SpecDecode.               *)
(***************************************************************************)
\* the entry with every block after the first taken away
FirstBlockOnly(response) ==
  [response EXCEPT !.propStat =
     IF response.propStat = <<>> THEN <<>> ELSE <<Head(response.propStat)>>]

\* the href of the entry resolves to a path
HrefResolves(response, trim) == _extractPath(response.href, trim).kind = "string"

\* the resource type of the first block can be read: it is not an array
\* without a first child
ResourceTypeReadable(response) ==
  fileTypeOf(Head(response.propStat).properties).kind = "string"

\* some block after the first has / has not the status 200
LaterBlock(response, ok) ==
  \E k \in 2..Len(response.propStat) :
    (response.propStat[k].status = StatusOK) = ok

\* C14: only the first property-status block of an entry decides decoding.
\* Every entry decodes to what it decodes to with its first block alone; an
\* entry (with a resolvable href and a readable resource type) whose first
\* block is 200 decodes to a FileInfo even when a later block is not 200, and
\* one whose first block is not 200 decodes to null even when a later block
\* is 200.
C14_FirstBlockDecides ==
  ParseFileInfoDone =>
    /\ ret = _parseFileInfo(FirstBlockOnly(call.response), call.leftTrimComponents)
    /\ (/\ HrefResolves(call.response, call.leftTrimComponents)
        /\ call.response.propStat # <<>>)
         => IF Head(call.response.propStat).status = StatusOK
              THEN ResourceTypeReadable(call.response) => ret.kind = "FileInfo"
              ELSE ret = Null

\* C14 witness: a 200 block followed by a 404 block has decoded to a FileInfo
C14_Witness ==
  /\ ParseFileInfoDone
  /\ Len(call.response.propStat) = 2
  /\ call.response.propStat[1].status = StatusOK
  /\ call.response.propStat[2].status = "HTTP/1.1 404 Not Found"
  /\ ret.kind = "FileInfo"
  /\ ret.props = call.response.propStat[1].properties

\* C14, the other half: a 404 block followed by a 200 block has decoded to
\* null although the href resolves
C14_NullReached ==
  /\ ParseFileInfoDone
  /\ HrefResolves(call.response, call.leftTrimComponents)
  /\ Len(call.response.propStat) = 2
  /\ call.response.propStat[1].status = "HTTP/1.1 404 Not Found"
  /\ call.response.propStat[2].status = StatusOK
  /\ ret = Null

\* the local name of a node: its name without the namespace prefix
LocalName(xmlvalue) == xmlvalue.nodeName[Len(xmlvalue.nodeName)]

\* '{DAV:}resourcetype' is present in the property map and its first child
\* is the element 'collection' of the namespace 'DAV:'
FirstChildIsDavCollection(props) ==
  /\ ResourceTypeKey \in DOMAIN props
  /\ props[ResourceTypeKey].kind = "array"
  /\ props[ResourceTypeKey].items # <<>>
  /\ props[ResourceTypeKey].items[1].namespaceURI = "DAV:"
  /\ LocalName(props[ResourceTypeKey].items[1]) = "collection"

\* C15: for every entry that decodes, the FileInfo type is 'dir' exactly when
\* '{DAV:}resourcetype' is present and its first child has the namespace
\* 'DAV:' and the local name 'collection', with or without a namespace prefix
\* in the node name; in every other case, absence of the property included,
\* the type is 'file'.
C15_DirExactlyWhenCollection ==
  (ParseFileInfoDone /\ ret.kind = "FileInfo") =>
     ret.type = IF FirstChildIsDavCollection(ret.props) THEN "dir" ELSE "file"

\* What holds of _parseFileInfo: the statement of C15 for the entries whose
\* first resource type child has a prefixed name ('d:collection').
DirExactlyWhenPrefixedCollection ==
  (/\ ParseFileInfoDone
   /\ ret.kind = "FileInfo"
   /\ FirstChildIsDavCollection(ret.props)
        => Len(ret.props[ResourceTypeKey].items[1].nodeName) = 2)
    => C15_DirExactlyWhenCollection

\* C16: for every entry that decodes, the FileInfo has the name the href
\* resolves to with the given leftTrimComponents ('/' + decoded segment over
\* the segments after 'remote.php', the 'webdav' or 'dav' segment and the
\* trimmed ones; a trailing slash adds nothing) and the properties of the
\* first property-status block, all of them.
C16_NameAndProperties ==
  (ParseFileInfoDone /\ ret.kind = "FileInfo") =>
     /\ ret.name = JoinDecoded(SegmentsFromOffset(Segments(call.response.href),
                                                  call.leftTrimComponents))
     /\ ret.props = Head(call.response.propStat).properties

\* C16 witness: href '/remote.php/webdav/docs/subdir/' with trim 0 and a
\* collection resource type has decoded to the directory '/docs/subdir'
C16_Witness ==
  /\ ParseFileInfoDone
  /\ call.response.href = HrefSubdir
  /\ call.leftTrimComponents = 0
  /\ call.response.propStat = <<Block(StatusOK, Array(<<Collection>>))>>
  /\ ret = FileInfo("/docs/subdir", "dir", (ResourceTypeKey :> Array(<<Collection>>)) @@ ETag)

\* C16, with a trim: the same href with trim 1 has decoded to '/subdir'
C16_TrimmedReached ==
  /\ ParseFileInfoDone
  /\ call.response.href = HrefSubdir
  /\ call.leftTrimComponents = 1
  /\ ret.kind = "FileInfo"
  /\ ret.name = "/subdir"

\* C17: batch decoding is total: for every list of entries {href, propStat}
\* (an unrecognised href, an empty propStat list, a non-200 status and an
\* empty resource type value included) _parseBody returns a sequence and
\* never raises; a malformed entry is dropped and the entries around it are
\* still decoded.
C17_BatchDecodingIsTotal ==
  ParseBodyDone =>
     /\ ret.kind = "array"
     /\ \A k \in 1..Len(EntriesOf(call.responses)) :
          LET fileInfo == _parseFileInfo(FirstBlockOnly(EntriesOf(call.responses)[k]),
                                         call.leftTrimComponents)
          IN fileInfo.kind = "FileInfo"
               => \E j \in 1..Len(ret.items) : ret.items[j] = fileInfo

\* What holds of _parseBody: it returns a sequence whenever no entry has an
\* href with a segment that does not percent-decode or a resource type array
\* without a first child.
BatchDecodesWhenEntriesDecode ==
  (ParseBodyDone /\ AllDecode(Decoded(call.responses, call.leftTrimComponents)))
    => C17_BatchDecodingIsTotal

(***************************************************************************)
(* The decoding operations called in the middle of a session: the session  *)
(* is in any state the setters and answers can bring it to, and one        *)
(* decoding operation is called.                                           *)
(***************************************************************************)
\* the session states: the instance URL set or not (with the URLs derived
\* from it), any authorization header, a version number only once an
\* instance is set, any current user
SessionStates ==
  {st \in [instance : {Null} \cup InstanceUrls,
           _authHeader : {Null} \cup AuthHeaders,
           _versionNumber : {Null, Str("10.2.0")},
           _currentUser : Users] :
     st._versionNumber # Null => st.instance # Null}

InSessionState(st) ==
  /\ instance = st.instance
  /\ _webdavUrl = IF st.instance = Null THEN Undefined
                  ELSE Str(toStr(st.instance) \o "remote.php/webdav")
  /\ _davPath = IF st.instance = Null THEN Undefined
                ELSE Str(toStr(st.instance) \o "remote.php/dav")
  /\ _authHeader = st._authHeader
  /\ _versionNumber = st._versionNumber
  /\ _currentUser = st._currentUser
  /\ requests = EmptyBag

\* the decoding calls made in a session: the hrefs and entries of the
\* multi-status inputs, and every call of the status normaliser
FrameCalls ==
  {c \in ExtractPathCalls : c.path \in EntryHrefs}
    \cup {c \in ParseFileInfoCalls : c.response \in BatchEntries}
    \cup {c \in ParseBodyCalls :
            c.responses.kind = "array" => Len(c.responses.items) <= 2}
    \cup CheckOCSstatusCalls
    \cup CheckOCSstatusCodeCalls

InitFrame ==
  /\ \E st \in SessionStates : InSessionState(st)
  /\ call \in FrameCalls
  /\ ret = NoRet

NextFrame ==
  \/ ExtractPath
  \/ ParseFileInfo
  \/ ParseBody
  \/ CheckOCSstatus
  \/ CheckOCSstatusCode
SpecFrame == InitFrame /\ [][NextFrame]_vars

\* what a decoding call returns on an instance fresh from the constructor
OnFreshInstance(c) ==
  CASE c.op = "_extractPath" -> _extractPath(c.path, c.leftTrimComponents)
    [] c.op = "_parseFileInfo" -> _parseFileInfo(c.response, c.leftTrimComponents)
    [] c.op = "_parseBody" -> _parseBody(c.responses, c.leftTrimComponents)
    [] c.op = "_checkOCSstatus" -> _checkOCSstatus(c.json, c.acceptedCodes)
    [] c.op = "_checkOCSstatusCode" -> _checkOCSstatusCode(c.json)

\* C21: the decoding operations (_extractPath, _parseFileInfo, _parseBody,
\* _checkOCSstatus, _checkOCSstatusCode) neither read nor change session
\* state: each leaves the instance, the URLs derived from it, the
\* authorization header, the version number and the current user as they
\* are and sends nothing, and whatever the session state is, it returns (or
\* throws) what it does for the same arguments on a fresh instance.
C21_DecodingLeavesSessionAlone ==
  [][/\ session' = session
     /\ requests' = requests
     /\ ret' = OnFreshInstance(call)]_vars

\* C21 witness: _checkOCSstatus has returned an error in a session that is
\* logged in, and the session still is
C21_Witness ==
  /\ CheckOCSstatusDone
  /\ ret = Str("Wrong path")
  /\ instance = Str("https://oc.example/")
  /\ _authHeader = Str("Basic YWRtaW4=")
  /\ _versionNumber = Str("10.2.0")
  /\ _currentUser = Obj("id" :> Str("admin"))

(***************************************************************************)
(* Claims about the session and the Request Facade, checked under          *)
(* SpecSession.                                                            *)
(***************************************************************************)
\* the step hands a request to the transport
IssuesRequest == BagCardinality(requests') > BagCardinality(requests)

\* C12: when the instance URL has been set and no authorization header has
\* been set (none yet, an empty one, or none any more after logout), an OCS
\* request such as getCapabilities rejects with exactly the string 'Please
\* specify an authorization first.' and no request goes to the network.
C12_NoAuthorizationRejects ==
  [][(/\ GetCapabilities \/ MakeOCSrequest
      /\ Truthy(instance)
      /\ ~Truthy(_authHeader))
       => /\ ret' = Rejected(Str("Please specify an authorization first."))
          /\ requests' = requests]_vars

\* C12 witness: getCapabilities has been called with an instance URL and no
\* authorization header, and has returned the rejected promise
C12_Witness ==
  /\ call = [op |-> "getCapabilities"]
  /\ instance = Str("https://oc.example/")
  /\ _authHeader = Null
  /\ ret = Rejected(Str("Please specify an authorization first."))
  /\ requests = EmptyBag

\* the promise a request operation returns when its precondition error is
\* err: rejected with err, or pending on the request it sent
PromiseFor(err) == IF err = Null THEN Pending ELSE Rejected(err)

\* C28: _get and _makeOCSrequest apply the same precondition checks with the
\* same outcome: in every session state, the one where instance URL and
\* authorization header are both unset included, either both reject without
\* issuing a request and with the same error message, or both go on to the
\* request.
C28_SamePreconditionOutcome ==
  [][/\ GetUrl =>
          /\ ret' = PromiseFor(preconditionError(instance, _authHeader))
          /\ ret'.state = "rejected" => requests' = requests
     /\ MakeOCSrequest =>
          /\ ret' = PromiseFor(getPreconditionError(instance, _authHeader))
          /\ ret'.state = "rejected" => requests' = requests]_vars

\* _get and _makeOCSrequest reject in the same session states, without a
\* request, and with the same message unless both values are unset
SamePreconditionUnlessBothUnset ==
  [][(GetUrl \/ MakeOCSrequest) =>
       /\ (ret'.state = "rejected")
            <=> (preconditionError(instance, _authHeader) # Null)
       /\ ret'.state = "rejected" => requests' = requests
       /\ (Truthy(instance) \/ Truthy(_authHeader)) =>
            ret' = PromiseFor(preconditionError(instance, _authHeader))]_vars

\* with nothing set, _get has rejected with the authorization message
GetWithNothingSetReached ==
  /\ call.op = "_get"
  /\ instance = Null
  /\ _authHeader = Null
  /\ ret = Rejected(Str("Please specify an authorization first."))

\* with nothing set, _makeOCSrequest has rejected with the server URL message
MakeOCSrequestWithNothingSetReached ==
  /\ call.op = "_makeOCSrequest"
  /\ instance = Null
  /\ _authHeader = Null
  /\ ret = Rejected(Str("Please specify a server URL first"))

\* C29: with the instance URL set, after logout() every call of
\* _makeOCSrequest rejects with 'Please specify an authorization first.' and
\* sends no request, until setAuthorization is called with a non-empty
\* header; and logout() leaves the instance URL, the DAV URLs derived from it
\* and the version number as they are.
C29_LogoutEndsAuthorization ==
  [][/\ call'.op = "logout" =>
          /\ ~Truthy(_authHeader')
          /\ <<instance, _webdavUrl, _davPath, _versionNumber>>'
               = <<instance, _webdavUrl, _davPath, _versionNumber>>
     /\ (~Truthy(_authHeader) /\ Truthy(_authHeader')) =>
          /\ call'.op = "setAuthorization"
          /\ call'.authHeader # Str("")
     /\ Truthy(instance) => Truthy(instance')
     /\ (/\ Truthy(instance)
         /\ ~Truthy(_authHeader)
         /\ \/ MakeOCSrequest
            \/ GetCapabilities
            \/ GetCurrentUserAsync /\ _currentUser = Null) =>
          /\ ret' = Rejected(Str("Please specify an authorization first."))
          /\ requests' = requests]_vars

\* C29 witness: in a session that had fetched the version number, logout()
\* has run and the next _makeOCSrequest has been rejected; instance URL, DAV
\* URLs and version number are as before
C29_Witness ==
  /\ call.op = "_makeOCSrequest"
  /\ instance = Str("https://oc.example/")
  /\ _webdavUrl = Str("https://oc.example/remote.php/webdav")
  /\ _davPath = Str("https://oc.example/remote.php/dav")
  /\ _versionNumber = Str("10.2.0")
  /\ _authHeader = Null
  /\ ret = Rejected(Str("Please specify an authorization first."))
  /\ requests = EmptyBag

\* the path with a '/' in front unless it has one; '/' for no path
WithLeadingSlash(path) ==
  IF path.kind # "text" THEN <<"/">>
  ELSE IF path.chars = <<>> THEN <<"/">>
  ELSE IF Head(path.chars) = "/" THEN path.chars
  ELSE <<"/">> \o path.chars

\* C23: after setInstance(i), the file URL built for a path p is exactly
\* i + 'remote.php/webdav' followed by the encoded normalised path, so a path
\* given with and without a leading '/' builds the same URL.
C23_FileUrlOfInstance ==
  (call.op = "_buildFullWebDAVPath" /\ instance # Null) =>
     ret = Str(instance.val \o "remote.php/webdav"
                 \o textToString(splitJoin(encodeURIComponent(WithLeadingSlash(call.path)))))

\* C23 witness: the URL of 'foo/bar', given without a leading '/'
C23_Witness ==
  /\ call = [op |-> "_buildFullWebDAVPath", path |-> Text(<<"foo", "/", "bar">>)]
  /\ instance = Str("https://oc.example/")
  /\ ret = Str("https://oc.example/remote.php/webdav/foo/bar")

\* C23, the same URL for '/foo/bar'
C23_WithSlashReached ==
  /\ call = [op |-> "_buildFullWebDAVPath", path |-> Text(<<"/", "foo", "/", "bar">>)]
  /\ ret = Str("https://oc.example/remote.php/webdav/foo/bar")

\* C13: in every session state in which no instance URL has been set, none
\* of the request operations of the Request Facade (_makeOCSrequest, _get,
\* ocs) hands a request to the network.
C13_NoInstanceNoRequest ==
  [][(/\ MakeOCSrequest \/ GetCapabilities \/ GetCurrentUserAsync \/ GetUrl \/ Ocs
      /\ ~Truthy(instance))
       => ~IssuesRequest]_vars

\* What holds: without an instance URL, _makeOCSrequest (called directly or
\* through getCapabilities and getCurrentUserAsync) and _get hand nothing to
\* the network.
NoInstanceNoRequestButOcs ==
  [][(/\ MakeOCSrequest \/ GetCapabilities \/ GetCurrentUserAsync \/ GetUrl
      /\ ~Truthy(instance))
       => ~IssuesRequest]_vars

\* ocs() on a fresh instance has fetched 'nullocs/v2.php/cloud/user?format=json'
OcsWithoutInstanceReached ==
  /\ instance = Null
  /\ call.op = "ocs"
  /\ \E r \in BagToSet(requests) :
       r.via = "fetch" /\ r.url = "nullocs/v2.php/cloud/user?format=json"

\* the transport answers a request
Answered == call'.op = "answer"

\* C24: after logout() no user is visible (getCurrentUser() is null) until
\* setCurrentUser is called or a user request started after the logout
\* completes; in particular the answer to a request that was in flight when
\* logout() ran leaves the current user null.
C24_LogoutHidesUser ==
  [][/\ (call.op = "logout" /\ Answered) => _currentUser' = Null
     /\ (_currentUser = Null /\ _currentUser' # Null)
          => \/ call'.op = "setCurrentUser"
             \/ Answered /\ call'.to = "_updateCurrentUser"]_vars

\* apart from the answers to user requests, only setCurrentUser makes a user
\* visible: the part of C24 the code keeps
OnlyUserAnswersAndSetCurrentUserShowUser ==
  [][(_currentUser = Null /\ _currentUser' # Null)
       => \/ call'.op = "setCurrentUser"
          \/ Answered /\ call'.to = "_updateCurrentUser"]_vars

\* a user request in flight at logout() has completed after it and its user
\* is the current user
UserVisibleAfterLogoutReached ==
  /\ call.op = "answer"
  /\ call.to = "_updateCurrentUser"
  /\ _authHeader = Null
  /\ _currentUser = Obj("id" :> Str("admin"))

\* the user requests in flight
UserRequestsInFlight ==
  LET sent == {r \in BagToSet(requests) : r.op = "_updateCurrentUser"} IN
  BagCardinality([r \in sent |-> requests[r]])

\* the transport answers a user request and its promise resolves
UserRequestSucceeds ==
  /\ Answered
  /\ call'.to = "_updateCurrentUser"
  /\ ret'.state = "resolved"

\* a call of getCurrentUserAsync with a user cached resolves with that user
\* and sends nothing; a call that sends a request found no user cached; and
\* the cached user changes only by logout, setCurrentUser and the answer to
\* a user request
CachedUserIsServed ==
  /\ (GetCurrentUserAsync /\ _currentUser # Null) =>
       /\ ret' = Resolved(_currentUser)
       /\ requests' = requests
  /\ (GetCurrentUserAsync /\ IssuesRequest) => _currentUser = Null
  /\ _currentUser' # _currentUser =>
       \/ call'.op \in {"logout", "setCurrentUser"}
       \/ Answered /\ call'.to = "_updateCurrentUser"

\* C30: getCurrentUserAsync issues a user request only when no user is
\* cached: with a non-null cached user it resolves with that user without
\* any request, once a user request has completed successfully every later
\* call (no logout or setCurrentUser(null) in between) resolves with the
\* cached user without a request, and at most one user request is in flight
\* at any time.
C30_OneUserRequestAtATime ==
  /\ [][/\ CachedUserIsServed
        /\ UserRequestSucceeds =>
             /\ _currentUser' = ret'.value
             /\ _currentUser' # Null]_vars
  /\ [](UserRequestsInFlight <= 1)

\* C30 as the code has it: getCurrentUserAsync issues a user request only
\* when no user is cached: with a non-null cached user it resolves with that
\* user without any request, and once a user request has completed
\* successfully its data is the cached user, which, when it is not null,
\* every later call (no logout, setCurrentUser or later user answer in
\* between) resolves with, without a request.  Calls made while no user is
\* cached each send their own request, so several user requests can be in
\* flight at once.
C30_RequestOnlyWithoutCachedUser ==
  [][/\ CachedUserIsServed
     /\ UserRequestSucceeds => _currentUser' = ret'.value]_vars

\* C30 witness: with a user cached and no request in flight,
\* getCurrentUserAsync has resolved with the cached user and sent nothing
C30_Witness ==
  /\ call.op = "getCurrentUserAsync"
  /\ _currentUser = Obj("id" :> Str("admin"))
  /\ ret = Resolved(Obj("id" :> Str("admin")))
  /\ requests = EmptyBag

\* two calls of getCurrentUserAsync before any answer: two user requests
\* are in flight
TwoUserRequestsReached ==
  /\ call.op = "getCurrentUserAsync"
  /\ UserRequestsInFlight = 2

\* a user request has succeeded with data null: no user is cached
SucceededWithoutUserReached ==
  /\ call.op = "answer"
  /\ call.to = "_updateCurrentUser"
  /\ ret = Resolved(Null)
  /\ _currentUser = Null

(***************************************************************************)
(* Claims about the URI Utilities, checked under SpecUri.                  *)
(***************************************************************************)
NormalizePathDone == call.op = "_normalizePath" /\ ret # NoRet
EncodeUriDone == call.op = "_encodeUri" /\ ret # NoRet

\* the path passed is the empty string or a missing value
EmptyOrMissing(path) == path \in {Undefined, Null, Text(<<>>)}

\* C19: _normalizePath is idempotent and always yields a path with a leading
\* '/': normalising the result again gives the same result, the result
\* starts with '/', and the empty string (or a missing value) maps to '/'.
C19_NormalizeIsIdempotent ==
  NormalizePathDone =>
    /\ _normalizePath(ret) = ret
    /\ ret.kind = "text"
    /\ ret.chars # <<>>
    /\ Head(ret.chars) = "/"
    /\ EmptyOrMissing(call.path) => ret = Text(<<"/">>)
    /\ ~EmptyOrMissing(call.path) =>
         ret.chars \in {call.path.chars, <<"/">> \o call.path.chars}

\* C19 witness: 'a/a' has been normalised to '/a/a'
C19_Witness ==
  /\ NormalizePathDone
  /\ call.path = Text(<<"a", "/", "a">>)
  /\ ret = Text(<<"/", "a", "/", "a">>)

\* C19, a path that needs nothing: '/a' has stayed '/a'
C19_UnchangedReached ==
  /\ NormalizePathDone
  /\ call.path = Text(<<"/", "a">>)
  /\ ret = call.path

\* the characters encodeURIComponent leaves alone
Unreserved == Chars \ (DOMAIN Escapes)

\* a path made only of unreserved characters and '/'
OnlyUnreservedAndSlash(path) ==
  /\ path.kind = "text"
  /\ \A k \in 1..Len(path.chars) : path.chars[k] \in Unreserved \cup {"/"}

\* the characters the percent escapes of the model stand for
Unescapes ==
  (<<"2", "F">> :> "/") @@ (<<"2", "0">> :> " ") @@ (<<"2", "5">> :> "%")
    @@ (<<"2", "a">> :> "*") @@ (<<"2", "2">> :> "\"")

\* percent-decoding of a segment, as decodeURIComponent does it: each escape
\* becomes its character, and a '%' that starts no escape is a URIError
RECURSIVE percentDecode(_)
percentDecode(chars) ==
  IF chars = <<>> THEN Text(<<>>)
  ELSE IF Head(chars) # "%"
    THEN LET rest == percentDecode(Tail(chars)) IN
         IF rest.kind = "throw" THEN rest ELSE Text(<<Head(chars)>> \o rest.chars)
  ELSE IF Len(chars) < 3 \/ SubSeq(chars, 2, 3) \notin DOMAIN Unescapes
    THEN Throw("URIError")
  ELSE LET rest == percentDecode(SubSeq(chars, 4, Len(chars))) IN
       IF rest.kind = "throw" THEN rest
       ELSE Text(<<Unescapes[SubSeq(chars, 2, 3)]>> \o rest.chars)

\* the '/'-separated segments of a text, empty ones included
RECURSIVE SplitOnSlash(_, _)
SplitOnSlash(chars, segment) ==
  IF chars = <<>> THEN <<segment>>
  ELSE IF Head(chars) = "/" THEN <<segment>> \o SplitOnSlash(Tail(chars), <<>>)
  ELSE SplitOnSlash(Tail(chars), Append(segment, Head(chars)))

\* the segments decoded one by one and put together again with '/' between
\* them, or the URIError of a segment that does not decode
RECURSIVE DecodeAndJoin(_)
DecodeAndJoin(segments) ==
  LET first == percentDecode(Head(segments)) IN
  IF first.kind = "throw" THEN first
  ELSE IF Len(segments) = 1 THEN first
  ELSE LET rest == DecodeAndJoin(Tail(segments)) IN
       IF rest.kind = "throw" THEN rest
       ELSE Text(first.chars \o <<"/">> \o rest.chars)

\* the number of '/' in a text
SlashCount(chars) == Cardinality({k \in 1..Len(chars) : chars[k] = "/"})

\* C20: for every path made only of unreserved characters and '/',
\* _encodeUri followed by percent-decoding of each '/'-separated segment of
\* the result yields the normalised form of the path, and every '/' of the
\* normalised path is kept as a literal separator in the encoded one.
C20_EncodeThenDecodeIsNormalize ==
  (EncodeUriDone /\ OnlyUnreservedAndSlash(call.path)) =>
    /\ DecodeAndJoin(SplitOnSlash(ret.chars, <<>>)) = _normalizePath(call.path)
    /\ SlashCount(ret.chars) = SlashCount(_normalizePath(call.path).chars)

\* C20 witness: 'a/~2' has been encoded to '/a/~2'
C20_Witness ==
  /\ EncodeUriDone
  /\ call.path = Text(<<"a", "/", "~", "2">>)
  /\ ret = Text(<<"/", "a", "/", "~", "2">>)

\* What holds beyond C20: the round trip for every path of the model, escaped
\* characters and the text '%2F' included.
EncodeThenDecodeForEveryPath ==
  EncodeUriDone =>
    /\ DecodeAndJoin(SplitOnSlash(ret.chars, <<>>)) = _normalizePath(call.path)
    /\ SlashCount(ret.chars) = SlashCount(_normalizePath(call.path).chars)

\* 'a %' has been encoded to '/a%20%25'
EscapedPathReached ==
  /\ EncodeUriDone
  /\ call.path = Text(<<"a", " ", "%">>)
  /\ ret = Text(<<"/", "a", "%", "2", "0", "%", "2", "5">>)

(***************************************************************************)
(* The helpers together: one call of any helper on a fresh instance, or a   *)
(* session.                                                                *)
(***************************************************************************)
Init == InitPath \/ InitDecode \/ InitOCS \/ InitUri \/ InitSession
Next == NextPath \/ NextDecode \/ NextOCS \/ NextUri \/ NextSession \/ NextUrl
Spec == Init /\ [][Next]_vars

====
